---- MODULE Spec2Model ----
(***************************************************************************)
(* A model of stagix (src/src/lib.rs): the static site generator for git   *)
(* repositories.  Four state machines share this module, one per           *)
(* component of the library:                                               *)
(*   SpecPath     Meta::write_html_content_to_file and to_root_path        *)
(*   SpecLog      get_log followed by get_commits over a commit graph      *)
(*   SpecRepo     build_repo_pages, with Meta::load as its first step      *)
(*   SpecPublish  build_pages_dirs and copy_docs_to_out_dir                *)
(* Each specification leaves the variables of the other components at      *)
(* their idle values.                                                      *)
(***************************************************************************)
EXTENDS Integers, Sequences, FiniteSets, TLC

VARIABLES
    \* ---- write_html_content_to_file
    w_out_dir,      \* out_dir: the canonical output root, a sequence of segments
    w_filepath,     \* filepath: the page path relative to out_dir
    w_pc,           \* "call" before the call, "written" after
    to_repo_root,   \* the prefix computed at lib.rs:121, a sequence of "../" tokens
    to_index_root,  \* the prefix computed at lib.rs:122
    \* ---- the repository read by get_log and get_commits
    parents,        \* commit -> its parent ids, in order (the first is the first parent)
    head,           \* the commit HEAD resolves to
    ctree,          \* commit -> its tree, a function from paths to blobs
    log_length,     \* Option<usize>: <<>> is None, <<n>> is Some(n)
    \* ---- get_log and get_commits
    h_pc,           \* where the walk stands
    revs,           \* the items the revision iterator has not yielded yet
    rev_i,          \* the index enumerate() gives the next item
    table,          \* the body rows of the log table
    containers,     \* the (id, container) pairs get_commits has pushed
    \* ---- the repository and output directory build_repo_pages is given
    meta_files,     \* description, url, owner, pages in the control directory
    head_ok,        \* whether repo.head_tree() resolves
    head_tree,      \* the entries of the head tree, in tree order, nested
    pages_text,     \* the trimmed text of the pages file, when it has any
    \* ---- build_repo_pages
    r_pc,           \* the phase build_repo_pages is about to run
    meta,           \* the Result of Meta::load
    r_result,       \* the Result build_repo_pages returns: "running", "Ok" or "Err"
    written,        \* the page files created below out_dir
    \* ---- build_pages_dirs
    repos,          \* the repositories of the list, in order
    p_idx,          \* the place in the list of the repository being processed, 0 before the loop
    p_pc,           \* the step build_pages_dirs is about to take
    fs_out,         \* repository name -> the directory out_dir/<name>
    fs_work,        \* the scratch directory working_dir
    root_tree,      \* Option<Tree>: the pages root find_root_of_docs_dir returned
    todo,           \* the entries copy_tree_to_dir has still to visit, with their paths
    warned,         \* the places in the list whose failure was logged
    p_result,       \* the Result build_pages_dirs returns: "running", "Ok" or "Err"
    prev_out,       \* fs_out as it was when the current repository's turn began
    \* ---- get_files
    f_pc,           \* where get_files stands
    records,        \* the records of the traversal the loop has not visited yet
    f_table,        \* the body rows of the files table
    f_entries,      \* the (path, content) pairs pushed so far
    f_result,       \* the Result get_files returns: "running", "Ok" or "Err"
    \* ---- build_index_page (it reads repos)
    i_pc,           \* the step build_index_page is about to take
    i_idx,          \* the place in the list of the repository whose row is resolved
    i_table,        \* the body rows of the index table
    i_warned,       \* the places in the list whose failure was logged
    i_result,       \* the Result build_index_page returns: "running", "Ok" or "Err"
    i_written,      \* Option: the table of the index page that was written
    pages_url,      \* options.pages_url
    index_out_dir,  \* whether options.out_dir is Some
    \* ---- the filesystem calls of the three builders
    mutated         \* the mutating calls made so far, each with the directory it works in

pathVars == <<w_out_dir, w_filepath, w_pc, to_repo_root, to_index_root>>
gitVars == <<parents, head, ctree, log_length>>
histVars == <<h_pc, revs, rev_i, table, containers>>

treeVars == <<meta_files, head_ok, head_tree, pages_text>>
repoVars == <<r_pc, r_result, written>>
pubVars == <<repos, p_idx, p_pc, fs_out, fs_work, root_tree, todo, warned, p_result,
             prev_out>>

filesVars == <<f_pc, records, f_table, f_entries, f_result>>

idxVars == <<i_pc, i_idx, i_table, i_warned, i_result, i_written, pages_url, index_out_dir>>

vars ==
    <<pathVars, gitVars, histVars, treeVars, meta, repoVars, pubVars, filesVars, idxVars,
      mutated>>

\* What each component leaves alone.
notPath ==
    <<gitVars, histVars, treeVars, meta, repoVars, pubVars, filesVars, idxVars, mutated>>
notHist == <<pathVars, treeVars, meta, repoVars, pubVars, filesVars, idxVars, mutated>>
notRepo == <<pathVars, histVars, pubVars, filesVars, idxVars>>
notPub == <<pathVars, gitVars, histVars, repoVars, filesVars, idxVars>>
notFiles ==
    <<pathVars, gitVars, histVars, treeVars, meta, repoVars, pubVars, idxVars, mutated>>
notIndex == <<pathVars, gitVars, histVars, repoVars, pubVars, filesVars>>

(***************************************************************************)
(* Bounds of the model.                                                    *)
(***************************************************************************)
MaxDepth == 3       \* longest page path below out_dir, in segments
MaxOutDepth == 2    \* longest out_dir, in segments below the filesystem root
MaxCommits == 4     \* commits of the repository when the shape of the history varies
MaxDiffCommits == 3 \* commits of the repository when the trees of the commits vary
MaxRepos == 2
MaxBytes == 3       \* repositories in the list given to build_pages_dirs

\* Option<T>
NoneOpt == <<>>
Some(x) == <<x>>
IsSome(o) == o # <<>>
Unwrap(o) == o[1]

Min(a, b) == IF a <= b THEN a ELSE b

\* Sequences over S of length lo..hi.
SeqsOfLen(S, lo, hi) == UNION {[1..n -> S] : n \in lo..hi}

(***************************************************************************)
(* The calls that change the filesystem.                                   *)
(***************************************************************************)
\* The paths the builders hand to the calls that change the filesystem: the
\* directory they start from and what is joined to it.
RepoPathJoin(rel) == [root |-> "repo_path", rel |-> rel]

\* out_dir.join(..)
OutDirJoin(rel) == [root |-> "out_dir", rel |-> rel]

\* working_dir.join(..)
WorkingDirJoin(rel) == [root |-> "working_dir", rel |-> rel]

\* A call that creates, writes, renames or removes at a path: what is kept is
\* the call and the directory the path lies in.
Mutation(call, path) == [call |-> call, root |-> path.root]

NoMutation == mutated = {}

(***************************************************************************)
(* LinkPathResolver: to_root_path and its caller.                          *)
(***************************************************************************)
Segments == {"files", "x.html"}

\* Path::join for a relative right-hand side: the segments are appended.
PathJoin(base, rel) == base \o rel

IsPrefix(p, s) == Len(p) <= Len(s) /\ SubSeq(s, 1, Len(p)) = p

\* Path::strip_prefix(to): Ok with the segments left after the prefix, Err when
\* `to` is no prefix of `from`.
StripPrefix(from, to) ==
    IF IsPrefix(to, from)
    THEN [ok |-> TRUE, val |-> SubSeq(from, Len(to) + 1, Len(from))]
    ELSE [ok |-> FALSE, val |-> <<>>]

\* usize::saturating_sub
SaturatingSub(a, b) == IF a >= b THEN a - b ELSE 0

\* str::repeat, on tokens: n copies of tok.
Repeat(tok, n) == [k \in 1..n |-> tok]

\* to_root_path with the saturating_sub(1) left out.
ToRootPathNoSub(from, to) ==
    LET path == StripPrefix(from, to)
    IN  [ok |-> path.ok, val |-> Repeat("../", Len(path.val))]

\* to_root_path; ok is FALSE where the unwrap of strip_prefix panics.
to_root_path(from, to) ==
    LET path == StripPrefix(from, to)
    IN  [ok |-> path.ok, val |-> Repeat("../", SaturatingSub(Len(path.val), 1))]

InitPath ==
    /\ w_out_dir \in SeqsOfLen(Segments, 0, MaxOutDepth)
    /\ w_filepath \in SeqsOfLen(Segments, 1, MaxDepth)
    /\ w_pc = "call"
    /\ to_repo_root = <<>>
    /\ to_index_root = <<>>

IdlePath ==
    /\ w_out_dir = <<>>
    /\ w_filepath = <<>>
    /\ w_pc = "idle"
    /\ to_repo_root = <<>>
    /\ to_index_root = <<>>

\* Meta::write_html_content_to_file: the file is created at out_dir.join(filepath)
\* and the two prefixes are computed from that path.
WriteHtmlContentToFile ==
    /\ w_pc = "call"
    /\ LET path == PathJoin(w_out_dir, w_filepath)
           root == to_root_path(path, w_out_dir)
       IN  IF root.ok
           THEN /\ to_repo_root' = root.val
                /\ to_index_root' = <<"../">> \o root.val
                /\ w_pc' = "written"
           ELSE /\ w_pc' = "panicked"
                /\ UNCHANGED <<to_repo_root, to_index_root>>
    /\ UNCHANGED <<w_out_dir, w_filepath, notPath>>

NextPath == WriteHtmlContentToFile

(***************************************************************************)
(* The repository as get_log and get_commits read it: commits, their       *)
(* parents and their trees.  The operators of this section stand for the   *)
(* gix calls the two functions make.                                       *)
(***************************************************************************)
Commits == 1..MaxCommits

\* The parent lists a commit c can have: none (a root), one, or two distinct
\* parents in either order (a merge), each an older commit.
ParentLists(c) ==
    {<<>>} \cup {<<p>> : p \in 1..(c - 1)}
           \cup ({<<p, q>> : p \in 1..(c - 1), q \in 1..(c - 1)} \ {<<p, p>> : p \in 1..(c - 1)})

\* The histories over the commits 1..n; the commits above n are unrelated roots.
Graphs(n) ==
    {g \in [Commits -> UNION {ParentLists(c) : c \in Commits}] :
        \A c \in Commits : g[c] \in (IF c <= n THEN ParentLists(c) ELSE {<<>>})}

Paths == <<"a", "d", "d/b">>     \* in the order a tree diff reports them
FilePaths == {"a", "d/b"}
Absent == [kind |-> "absent", lines |-> <<>>]
Text(ls) == [kind |-> "text", lines |-> ls]
Binary == [kind |-> "binary", lines |-> <<>>]

\* A tree maps each file path to its blob; the directory d exists when d/b does.
MkTree(a, b) == [p \in FilePaths |-> IF p = "a" THEN a ELSE b]
EmptyTree == MkTree(Absent, Absent)
TreePalette ==
    { EmptyTree,
      MkTree(Text(<<"x", "y">>), Absent),
      MkTree(Text(<<"x">>), Binary),
      MkTree(Absent, Text(<<"x", "y">>)) }

FilesOf(tree) == {p \in FilePaths : tree[p].kind # "absent"}

RECURSIVE ChainLastParent(_, _)
ChainLastParent(g, c) ==
    IF g[c] = <<>> THEN <<c>> ELSE <<c>> \o ChainLastParent(g, g[c][Len(g[c])])

\* rev_walk([c]).first_parent_only().all(): c, then the first parent of each
\* commit in turn, down to a commit with no parent.
RECURSIVE FirstParentChain(_, _)
FirstParentChain(g, c) ==
    IF g[c] = <<>> THEN <<c>> ELSE <<c>> \o FirstParentChain(g, g[c][1])

\* The length of the longest common subsequence of two sequences of lines.
RECURSIVE Lcs(_, _)
Lcs(s, t) ==
    IF s = <<>> \/ t = <<>> THEN 0
    ELSE IF Head(s) = Head(t) THEN 1 + Lcs(Tail(s), Tail(t))
    ELSE LET x == Lcs(Tail(s), t)
             y == Lcs(s, Tail(t))
         IN  IF x >= y THEN x ELSE y

LineCountsBinaryAsEmpty(old, new) ==
    LET common == Lcs(old.lines, new.lines)
    IN  Some([insertions |-> Len(new.lines) - common,
              removals |-> Len(old.lines) - common])

\* diff.line_counts(): None when a side is binary, else the inserted and removed
\* lines of the line diff (an absent side is the empty text).
LineCounts(old, new) ==
    IF old.kind = "binary" \/ new.kind = "binary" THEN NoneOpt
    ELSE LET common == Lcs(old.lines, new.lines)
         IN  Some([insertions |-> Len(new.lines) - common,
                   removals |-> Len(old.lines) - common])

\* The path-level change of one path between two trees, as a sequence of none or
\* one change.  A change of the directory d has entry mode tree.
ChangeAt(old, new, p) ==
    LET q == IF p = "d" THEN "d/b" ELSE p
        mode == IF p = "d" THEN "tree" ELSE "blob"
        was == old[q].kind # "absent"
        is == new[q].kind # "absent"
        other == IF q = "a" THEN "d/b" ELSE "a"
        \* a file that left one path and shows up unchanged at the other
        movedHere == /\ mode = "blob" /\ ~was /\ is
                     /\ old[other] = new[q] /\ new[other].kind = "absent"
        movedAway == /\ mode = "blob" /\ was /\ ~is
                     /\ new[other] = old[q] /\ old[other].kind = "absent"
    IN  IF movedAway THEN <<>>
        ELSE IF movedHere
        THEN <<[kind |-> "Rewrite", mode |-> mode, source_location |-> other,
                location |-> p, old |-> old[other], new |-> new[q]]>>
        ELSE IF ~was /\ is
        THEN <<[kind |-> "Addition", mode |-> mode, source_location |-> p,
                location |-> p, old |-> Absent, new |-> new[q]]>>
        ELSE IF was /\ ~is
        THEN <<[kind |-> "Deletion", mode |-> mode, source_location |-> p,
                location |-> p, old |-> old[q], new |-> Absent]>>
        ELSE IF was /\ is /\ old[q] # new[q]
        THEN <<[kind |-> "Modification", mode |-> mode, source_location |-> p,
                location |-> p, old |-> old[q], new |-> new[q]]>>
        ELSE <<>>

\* ancestor_tree.changes().for_each_to_obtain_tree(&tree, ..): the changes that
\* turn `old` into `new`, in path order.
RECURSIVE ChangesFrom(_, _, _)
ChangesFrom(old, new, k) ==
    IF k > Len(Paths) THEN <<>>
    ELSE ChangeAt(old, new, Paths[k]) \o ChangesFrom(old, new, k + 1)

Changes(old, new) == ChangesFrom(old, new, 1)

\* repo.rev_walk([head.id()]).first_parent_only().all()
RevWalk == FirstParentChain(parents, head)

AncestorTreeLastParent(c) ==
    LET ancestors == ChainLastParent(parents, c)
    IN  IF Len(ancestors) >= 2 THEN ctree[ancestors[2]] ELSE EmptyTree

\* The diff base of commit c: commit.ancestors().first_parent_only().all()
\* .skip(1).next() is the first parent, whose tree is taken; a commit without
\* one gets repo.empty_tree().
AncestorTree(c) ==
    LET ancestors == FirstParentChain(parents, c)
    IN  IF Len(ancestors) >= 2 THEN ctree[ancestors[2]] ELSE EmptyTree

\* ancestor_tree.changes().stats(&tree): a change whose line counts exist adds one
\* file and its counts; tree changes and binary content have no line counts.
RECURSIVE StatsOf(_)
StatsOf(changes) ==
    IF changes = <<>>
    THEN [files_changed |-> 0, lines_added |-> 0, lines_removed |-> 0]
    ELSE LET ch == Head(changes)
             rest == StatsOf(Tail(changes))
             counts == IF ch.mode = "tree" THEN NoneOpt ELSE LineCounts(ch.old, ch.new)
         IN  IF IsSome(counts)
             THEN [files_changed |-> rest.files_changed + 1,
                   lines_added |-> rest.lines_added + Unwrap(counts).insertions,
                   lines_removed |-> rest.lines_removed + Unwrap(counts).removals]
             ELSE rest

Stats(old, new) == StatsOf(Changes(old, new))

\* The body row get_log adds for a commit.
LogRow(c) ==
    LET stats == Stats(AncestorTree(c), ctree[c])
    IN  [kind |-> "commit", id |-> c, href |-> <<"commits", c>>,
         changed |-> stats.files_changed, added |-> stats.lines_added,
         removed |-> stats.lines_removed, remaining |-> 0]

\* The trailing row of a truncated log.
MoreRow(n) ==
    [kind |-> "more", id |-> 0, href |-> <<>>, changed |-> 0, added |-> 0,
     removed |-> 0, remaining |-> n]

Marker(kind) ==
    CASE kind = "Addition" -> "A"
      [] kind = "Deletion" -> "D"
      [] kind = "Modification" -> "M"
      [] kind = "Rewrite" -> "R"

\* The callback with the section marker's id taken from old_location.
RECURSIVE ForEachChangeMarkedAtOld(_, _, _, _)
ForEachChangeMarkedAtOld(changes, ancestor_tree, tree, acc) ==
    IF changes = <<>> THEN acc
    ELSE LET ch == Head(changes)
         IN  IF ch.mode = "tree"
             THEN ForEachChangeMarkedAtOld(Tail(changes), ancestor_tree, tree, acc)
             ELSE
               LET counts == LineCounts(ch.old, ch.new)
                   lines_added == IF IsSome(counts) THEN Unwrap(counts).insertions ELSE 0
                   lines_removed == IF IsSome(counts) THEN Unwrap(counts).removals ELSE 0
                   row == [marker |-> Marker(ch.kind), href |-> ch.location,
                           lines_added |-> lines_added, lines_removed |-> lines_removed]
                   diff == [id |-> ch.source_location,
                            old_location |-> ch.source_location,
                            new_location |-> ch.location,
                            old_string |-> ancestor_tree[ch.location],
                            new_string |-> tree[ch.location]]
               IN  ForEachChangeMarkedAtOld(Tail(changes), ancestor_tree, tree,
                     [total_files_changed |->
                          acc.total_files_changed + (IF IsSome(counts) THEN 1 ELSE 0),
                      total_lines_added |-> acc.total_lines_added + lines_added,
                      total_lines_removed |-> acc.total_lines_removed + lines_removed,
                      diffstat_table |-> Append(acc.diffstat_table, row),
                      pre_diffs |-> Append(acc.pre_diffs, diff)])

\* The callback of for_each_to_obtain_tree in get_commits, folded over the
\* changes: acc holds the three totals, the diffstat table and pre_diffs.
RECURSIVE ForEachChange(_, _, _, _)
ForEachChange(changes, ancestor_tree, tree, acc) ==
    IF changes = <<>> THEN acc
    ELSE LET ch == Head(changes)
         IN  IF ch.mode = "tree"
             THEN ForEachChange(Tail(changes), ancestor_tree, tree, acc)
             ELSE
               LET counts == LineCounts(ch.old, ch.new)
                   lines_added == IF IsSome(counts) THEN Unwrap(counts).insertions ELSE 0
                   lines_removed == IF IsSome(counts) THEN Unwrap(counts).removals ELSE 0
                   row == [marker |-> Marker(ch.kind), href |-> ch.location,
                           lines_added |-> lines_added, lines_removed |-> lines_removed]
                   diff == [id |-> ch.location,
                            old_location |-> ch.source_location,
                            new_location |-> ch.location,
                            old_string |-> ancestor_tree[ch.location],
                            new_string |-> tree[ch.location]]
               IN  ForEachChange(Tail(changes), ancestor_tree, tree,
                     [total_files_changed |->
                          acc.total_files_changed + (IF IsSome(counts) THEN 1 ELSE 0),
                      total_lines_added |-> acc.total_lines_added + lines_added,
                      total_lines_removed |-> acc.total_lines_removed + lines_removed,
                      diffstat_table |-> Append(acc.diffstat_table, row),
                      pre_diffs |-> Append(acc.pre_diffs, diff)])

ParentRevsFirstAlwaysLinked(c, i) ==
    [j \in 1..Len(parents[c]) |-> [id |-> parents[c][j], link |-> (j = 1)]]

\* The parents line of a detail page: the first parent is a link unless
\* Some(i + 1) = log_length; the others are plain text.
ParentRevs(c, i) ==
    [j \in 1..Len(parents[c]) |->
        [id |-> parents[c][j], link |-> (j = 1 /\ Some(i + 1) # log_length)]]

\* The container get_commits builds for the commit at index i of the walk.
CommitContainer(c, i) ==
    LET tree == ctree[c]
        ancestor_tree == AncestorTree(c)
        out == ForEachChange(Changes(ancestor_tree, tree), ancestor_tree, tree,
                 [total_files_changed |-> 0, total_lines_added |-> 0,
                  total_lines_removed |-> 0, diffstat_table |-> <<>>,
                  pre_diffs |-> <<>>])
    IN  [id |-> c, parent_revs |-> ParentRevs(c, i), ancestor_tree |-> ancestor_tree,
         total_files_changed |-> out.total_files_changed,
         total_lines_added |-> out.total_lines_added,
         total_lines_removed |-> out.total_lines_removed,
         diffstat_table |-> out.diffstat_table, pre_diffs |-> out.pre_diffs]

\* The loop guard shared by both walks: `if i >= log_len { break }`.
PastBound(i) == IsSome(log_length) /\ i >= Unwrap(log_length)

LogLengths == {NoneOpt} \cup {Some(n) : n \in 0..(MaxCommits + 1)}

\* The shape of the history and the bound vary; every commit holds the same file.
InitLogShapes ==
    /\ parents \in Graphs(MaxCommits)
    /\ head = MaxCommits
    /\ ctree = [c \in Commits |-> MkTree(Text(<<"x", "y">>), Absent)]
    /\ log_length \in LogLengths

\* The trees of the commits vary over a short history walked without a bound.
InitLogTrees ==
    /\ parents \in Graphs(Min(MaxDiffCommits, MaxCommits))
    /\ head = Min(MaxDiffCommits, MaxCommits)
    /\ ctree \in [Commits -> TreePalette]
    /\ \A c \in Commits : c > MaxDiffCommits => ctree[c] = EmptyTree
    /\ log_length = NoneOpt

InitHist ==
    /\ h_pc = "start"
    /\ revs = <<>>
    /\ rev_i = 0
    /\ table = <<>>
    /\ containers = <<>>

IdleGit ==
    /\ parents = [c \in Commits |-> <<>>]
    /\ head = 1
    /\ ctree = [c \in Commits |-> EmptyTree]
    /\ log_length = NoneOpt

IdleHist ==
    /\ h_pc = "idle"
    /\ revs = <<>>
    /\ rev_i = 0
    /\ table = <<>>
    /\ containers = <<>>

\* get_log up to its loop: the revision iterator is created at head.
GetLogStart ==
    /\ h_pc = "start"
    /\ revs' = RevWalk
    /\ rev_i' = 0
    /\ table' = <<>>
    /\ h_pc' = "log_loop"
    /\ UNCHANGED <<containers, gitVars, notHist>>

\* One turn of `for (i, rev) in &mut revs`: the iterator yields its next item,
\* or the loop ends; the item is dropped at the break, or becomes a row.
GetLogNext ==
    /\ h_pc = "log_loop"
    /\ IF revs = <<>>
       THEN /\ h_pc' = "log_count"
            /\ UNCHANGED <<revs, rev_i, table>>
       ELSE /\ revs' = Tail(revs)
            /\ rev_i' = rev_i + 1
            /\ IF PastBound(rev_i)
               THEN /\ h_pc' = "log_count"
                    /\ UNCHANGED table
               ELSE /\ table' = Append(table, LogRow(Head(revs)))
                    /\ UNCHANGED h_pc
    /\ UNCHANGED <<containers, gitVars, notHist>>

\* `let remaining = revs.count()` and the trailing row.
GetLogCount ==
    /\ h_pc = "log_count"
    /\ LET remaining == Len(revs)
       IN  table' = IF remaining > 0 THEN Append(table, MoreRow(remaining)) ELSE table
    /\ revs' = <<>>
    /\ h_pc' = "commits_start"
    /\ UNCHANGED <<rev_i, containers, gitVars, notHist>>

\* get_commits up to its loop: a fresh walk from head.
GetCommitsStart ==
    /\ h_pc = "commits_start"
    /\ revs' = RevWalk
    /\ rev_i' = 0
    /\ containers' = <<>>
    /\ h_pc' = "commits_loop"
    /\ UNCHANGED <<table, gitVars, notHist>>

\* The loop of get_commits without the break at the bound.
GetCommitsNextUnbounded ==
    /\ h_pc = "commits_loop"
    /\ IF revs = <<>>
       THEN /\ h_pc' = "done"
            /\ revs' = <<>>
            /\ UNCHANGED <<rev_i, containers>>
       ELSE /\ revs' = Tail(revs)
            /\ rev_i' = rev_i + 1
            /\ containers' = Append(containers, CommitContainer(Head(revs), rev_i))
            /\ UNCHANGED h_pc
    /\ UNCHANGED <<table, gitVars, notHist>>

\* One turn of `for (i, rev) in revs.enumerate()` in get_commits.
GetCommitsNext ==
    /\ h_pc = "commits_loop"
    /\ IF revs = <<>> \/ PastBound(rev_i)
       THEN /\ h_pc' = "done"
            /\ revs' = <<>>
            /\ UNCHANGED <<rev_i, containers>>
       ELSE /\ revs' = Tail(revs)
            /\ rev_i' = rev_i + 1
            /\ containers' = Append(containers, CommitContainer(Head(revs), rev_i))
            /\ UNCHANGED h_pc
    /\ UNCHANGED <<table, gitVars, notHist>>

NextLog ==
    \/ GetLogStart
    \/ GetLogNext
    \/ GetLogCount
    \/ GetCommitsStart
    \/ GetCommitsNext


(***************************************************************************)
(* MetadataResolver: Meta::load.                                           *)
(***************************************************************************)
README_FILES == <<"README", "README.md">>
LICENSE_FILES == <<"LICENSE", "LICENSE.md", "COPYING">>

Contains(list, x) == \E k \in 1..Len(list) : list[k] = x

MetaNames == {"description", "url", "owner", "pages"}

\* A metadata file is missing, exists but cannot be read, or holds text that is
\* empty or not once trimmed.
MetaFileStates == {"missing", "unreadable", "empty", "text"}

\* An entry of a tree: its filename, its kind (blob, exe, tree, link, commit),
\* for a tree its own entries, and for a blob its data where that matters.
Entry(filename, kind, sub) ==
    [filename |-> filename, kind |-> kind, sub |-> sub, data |-> ""]

\* EntryMode::is_blob: a regular or an executable file.
IsBlob(e) == e.kind \in {"blob", "exe"}
IsTree(e) == e.kind = "tree"

\* The entries every directory of the modelled trees holds.
Nested == <<Entry("LICENSE", "blob", <<>>), Entry("README", "blob", <<>>)>>

\* The names of the candidate lists with the place each takes in a tree: git
\* orders the entries by name, a directory as if its name ended in "/".
Slots ==
    << <<"COPYING", FALSE>>, <<"COPYING", TRUE>>, <<"LICENSE", FALSE>>,
       <<"LICENSE.md", FALSE>>, <<"LICENSE.md", TRUE>>, <<"LICENSE", TRUE>>,
       <<"README", FALSE>>, <<"README.md", FALSE>>, <<"README.md", TRUE>>,
       <<"README", TRUE>> >>
CandidateNames == {Slots[k][1] : k \in 1..Len(Slots)}
TopKinds == {"absent", "blob", "exe", "tree", "link"}

RECURSIVE TopEntries(_, _)
TopEntries(kinds, k) ==
    IF k > Len(Slots) THEN <<>>
    ELSE LET name == Slots[k][1]
             here == kinds[name] # "absent" /\ ((kinds[name] = "tree") = Slots[k][2])
         IN  (IF here
              THEN <<Entry(name, kinds[name], IF kinds[name] = "tree" THEN Nested ELSE <<>>)>>
              ELSE <<>>) \o TopEntries(kinds, k + 1)

\* The head tree with the given kinds of candidate-named entries and a directory
\* docs beside them.
TreeOf(kinds) == TopEntries(kinds, 1) \o <<Entry("docs", "tree", Nested)>>

\* Every entry of a tree with the entries below it, depth first.
RECURSIVE Flatten(_)
Flatten(tree) ==
    IF tree = <<>> THEN <<>>
    ELSE <<Head(tree)>> \o Flatten(Head(tree).sub) \o Flatten(Tail(tree))

HeadTreeIterDeep(tree) == Flatten(tree)

\* head_tree.iter(): the direct entries of the head tree, in tree order.
HeadTreeIter(tree) == tree

LoadMetaFileMissingAsEmpty(name) ==
    CASE meta_files[name] = "missing" -> [ok |-> TRUE, val |-> Some("")]
      [] meta_files[name] = "unreadable" -> [ok |-> FALSE, val |-> NoneOpt]
      [] meta_files[name] = "empty" -> [ok |-> TRUE, val |-> Some("")]
      [] meta_files[name] = "text" ->
            [ok |-> TRUE, val |-> Some(IF name = "pages" THEN pages_text ELSE name)]

\* load_meta_file: Ok(None) unless the path is a file, else the trimmed text;
\* a read that fails is the Err.
load_meta_file(name) ==
    CASE meta_files[name] = "missing" -> [ok |-> TRUE, val |-> NoneOpt]
      [] meta_files[name] = "unreadable" -> [ok |-> FALSE, val |-> NoneOpt]
      [] meta_files[name] = "empty" -> [ok |-> TRUE, val |-> Some("")]
      [] meta_files[name] = "text" ->
            [ok |-> TRUE, val |-> Some(IF name = "pages" THEN pages_text ELSE name)]

\* Option<String>::unwrap_or_default
UnwrapOrDefault(o) == IF IsSome(o) THEN Unwrap(o) ELSE ""

\* The loop of Meta::load over the entries: acc is <<readme, license>>.
RECURSIVE ScanEntries(_, _)
ScanEntries(entries, acc) ==
    IF entries = <<>> THEN acc
    ELSE LET entry == Head(entries)
             filename == entry.filename
         IN  ScanEntries(Tail(entries),
                 IF ~IsBlob(entry) THEN acc
                 ELSE IF Contains(README_FILES, filename)
                 THEN [acc EXCEPT !.readme = Some(filename)]
                 ELSE IF Contains(LICENSE_FILES, filename)
                 THEN [acc EXCEPT !.license = Some(filename)]
                 ELSE acc)

\* The traversal of Meta::load in main.rs: MetaDelegate skips every tree and
\* looks at every other entry of the top level.
RECURSIVE MetaDelegate(_, _)
MetaDelegate(entries, acc) ==
    IF entries = <<>> THEN acc
    ELSE LET entry == Head(entries)
             filename == entry.filename
         IN  MetaDelegate(Tail(entries),
                 IF IsTree(entry) THEN acc
                 ELSE IF Contains(README_FILES, filename)
                 THEN [acc EXCEPT !.readme = Some(filename)]
                 ELSE IF Contains(LICENSE_FILES, filename)
                 THEN [acc EXCEPT !.license = Some(filename)]
                 ELSE acc)

NoMeta ==
    [ok |-> FALSE, err |-> "", description |-> "", url |-> "", owner |-> "",
     pages |-> NoneOpt, readme |-> NoneOpt, license |-> NoneOpt]

MetaErr(why) == [NoMeta EXCEPT !.err = why]

MetaLoadNoHeadCheck ==
    LET description == load_meta_file("description")
        url == load_meta_file("url")
        owner == load_meta_file("owner")
        pages == load_meta_file("pages")
        found == ScanEntries(IF head_ok THEN HeadTreeIter(head_tree) ELSE <<>>,
                             [readme |-> NoneOpt, license |-> NoneOpt])
    IN  IF ~description.ok THEN MetaErr("description")
        ELSE IF ~url.ok THEN MetaErr("url")
        ELSE IF ~owner.ok THEN MetaErr("owner")
        ELSE IF ~pages.ok THEN MetaErr("pages")
        ELSE [ok |-> TRUE, err |-> "",
              description |-> UnwrapOrDefault(description.val),
              url |-> UnwrapOrDefault(url.val),
              owner |-> UnwrapOrDefault(owner.val),
              pages |-> pages.val,
              readme |-> found.readme, license |-> found.license]

\* Meta::load: the four metadata files in turn, each `?` returning the first
\* Err; then the head tree, whose Err is returned too; then the scan of its
\* direct entries.
MetaLoad ==
    LET description == load_meta_file("description")
        url == load_meta_file("url")
        owner == load_meta_file("owner")
        pages == load_meta_file("pages")
        found == ScanEntries(HeadTreeIter(head_tree), [readme |-> NoneOpt, license |-> NoneOpt])
    IN  IF ~description.ok THEN MetaErr("description")
        ELSE IF ~url.ok THEN MetaErr("url")
        ELSE IF ~owner.ok THEN MetaErr("owner")
        ELSE IF ~pages.ok THEN MetaErr("pages")
        ELSE IF ~head_ok THEN MetaErr("head")
        ELSE [ok |-> TRUE, err |-> "",
              description |-> UnwrapOrDefault(description.val),
              url |-> UnwrapOrDefault(url.val),
              owner |-> UnwrapOrDefault(owner.val),
              pages |-> pages.val,
              readme |-> found.readme, license |-> found.license]

(***************************************************************************)
(* build_repo_pages.                                                       *)
(***************************************************************************)
\* The content pages get_files returns, as paths below files/: one for every
\* blob or executable at any depth; trees are descended, links and submodule
\* commits are passed over.
RECURSIVE FilePages(_, _)
FilePages(tree, dir) ==
    IF tree = <<>> THEN <<>>
    ELSE LET e == Head(tree)
         IN  (CASE IsBlob(e) -> <<dir \o <<e.filename>>>>
                [] IsTree(e) -> FilePages(e.sub, dir \o <<e.filename>>)
                [] OTHER -> <<>>) \o FilePages(Tail(tree), dir)

\* The ids of the containers get_commits returns: the walk from head, cut at
\* the bound.
RECURSIVE WalkIds(_, _)
WalkIds(rs, i) ==
    IF rs = <<>> \/ PastBound(i) THEN <<>>
    ELSE <<Head(rs)>> \o WalkIds(Tail(rs), i + 1)

RefsPages == << <<"refs.html">> >>
FilesPages ==
    [k \in 1..Len(FilePages(head_tree, <<>>)) |-> <<"files">> \o FilePages(head_tree, <<>>)[k]]
        \o << <<"files.html">> >>
LogPages == << <<"log.html">> >>
CommitsPages ==
    [k \in 1..Len(WalkIds(RevWalk, 0)) |-> <<"commits", WalkIds(RevWalk, 0)[k]>>]

IdleTree ==
    /\ meta_files = [n \in MetaNames |-> "missing"]
    /\ head_ok = TRUE
    /\ head_tree = <<>>
    /\ pages_text = ""
    /\ meta = NoMeta

IdleRepo ==
    /\ r_pc = "idle"
    /\ r_result = "running"
    /\ written = {}

\* The metadata files and the head vary over two small trees.
InitRepoFiles ==
    /\ meta_files \in [MetaNames -> MetaFileStates]
    /\ head_ok \in BOOLEAN
    /\ head_tree \in {<<>>, TreeOf([n \in CandidateNames |-> "blob"])}
    /\ log_length \in {NoneOpt, Some(1)}

\* The entries of the head tree vary; the metadata files are all there.
InitRepoTree ==
    /\ meta_files = [n \in MetaNames |-> "text"]
    /\ head_ok = TRUE
    /\ head_tree \in {TreeOf(kinds) : kinds \in [CandidateNames -> TopKinds]}
    /\ log_length = NoneOpt

InitRepo ==
    /\ InitRepoFiles \/ InitRepoTree
    /\ pages_text = "docs"
    /\ parents = [c \in Commits |-> IF c = 1 THEN <<>> ELSE <<c - 1>>]
    /\ head = 2
    /\ ctree = [c \in Commits |-> EmptyTree]
    /\ r_pc = "start"
    /\ meta = NoMeta
    /\ r_result = "running"
    /\ written = {}
    /\ IdleHist
    /\ IdlePath

\* A `?` that returns the Err to the caller of build_repo_pages.
ReturnErr ==
    /\ r_pc' = "returned"
    /\ r_result' = "Err"

\* out_dir.canonicalize()? and gix::open(..)?: either may fail.
BuildOpen ==
    /\ r_pc = "start"
    /\ \E ok \in BOOLEAN :
          IF ok THEN r_pc' = "meta" /\ UNCHANGED r_result ELSE ReturnErr
    /\ UNCHANGED <<meta, written, treeVars, gitVars, notRepo>>
    /\ UNCHANGED mutated

\* `let meta = Meta::load(&repo, repo_path)?`
BuildLoadMeta ==
    /\ r_pc = "meta"
    /\ meta' = MetaLoad
    /\ IF meta'.ok THEN r_pc' = "refs" /\ UNCHANGED r_result ELSE ReturnErr
    /\ UNCHANGED <<written, treeVars, gitVars, notRepo>>
    /\ UNCHANGED mutated

WritePagesIgnoringFailure(pages, next) ==
    \E k \in 0..Len(pages) :
        /\ written' = written \cup {pages[j] : j \in 1..k}
        /\ mutated' = mutated \cup
              {Mutation("File::create", OutDirJoin(pages[j])) : j \in 1..k}
        /\ r_pc' = next
        /\ r_result' = IF next = "returned" THEN "Ok" ELSE r_result

\* The writes of one phase: its pages are written in order; the phase may fail
\* before any of them (the get_ call, a create_dir_all), or at the creation or
\* the write of any one; the pages created until then stay.
WritePages(pages, next) ==
    \E k \in 0..Len(pages), ok \in BOOLEAN :
        /\ written' = written \cup {pages[j] : j \in 1..k}
        /\ mutated' = mutated \cup
              {Mutation("File::create", OutDirJoin(pages[j])) : j \in 1..k}
              \cup (IF k >= 1 /\ Len(pages[1]) > 1
                    THEN {Mutation("create_dir_all", OutDirJoin(<<pages[1][1]>>))}
                    ELSE {})
        /\ IF k = Len(pages) /\ ok
           THEN /\ r_pc' = next
                /\ r_result' = IF next = "returned" THEN "Ok" ELSE r_result
           ELSE ReturnErr

\* get_refs and refs.html
BuildRefs ==
    /\ r_pc = "refs"
    /\ WritePages(RefsPages, "files")
    /\ UNCHANGED <<meta, treeVars, gitVars, notRepo>>

\* get_files, the content pages below files/ and files.html
BuildFiles ==
    /\ r_pc = "files"
    /\ WritePages(FilesPages, "log")
    /\ UNCHANGED <<meta, treeVars, gitVars, notRepo>>

\* get_log and log.html
BuildLog ==
    /\ r_pc = "log"
    /\ WritePages(LogPages, "commits")
    /\ UNCHANGED <<meta, treeVars, gitVars, notRepo>>

\* get_commits and the detail pages below commits/
BuildCommits ==
    /\ r_pc = "commits"
    /\ WritePages(CommitsPages, "returned")
    /\ UNCHANGED <<meta, treeVars, gitVars, notRepo>>

NextRepo ==
    \/ BuildOpen
    \/ BuildLoadMeta
    \/ BuildRefs
    \/ BuildFiles
    \/ BuildLog
    \/ BuildCommits

(***************************************************************************)
(* PagePublisher: build_pages_dirs and copy_docs_to_out_dir.               *)
(***************************************************************************)
RepoNames == {"x", "y"}

Blob(filename, data) == [filename |-> filename, kind |-> "blob", sub |-> <<>>, data |-> data]

\* The head tree of every repository of the list: a README, a directory docs
\* with a page, a symlink and a subdirectory, and a page at the top level.
PubTree ==
    << Blob("README", "readme"),
       Entry("docs", "tree",
             << Entry("api", "tree", <<Blob("a.html", "new")>>),
                Blob("index.html", "new"),
                Entry("latest", "link", <<>>) >>),
       Blob("index.html", "new") >>

\* PathBuf::from(docs_dir).components(), for the texts a pages file holds here.
Components(text) ==
    CASE text = "" -> <<>>
      [] text = "docs" -> <<"docs">>
      [] text = "docs/api" -> <<"docs", "api">>
      [] text = "site" -> <<"site">>
      [] text = "README" -> <<"README">>

\* What a repository of the list can be: its path does not exist; it cannot be
\* opened; its head does not resolve; it has no pages file; its pages file
\* names the root, a directory, a nested directory, a name the tree lacks, or a
\* blob; or its description file cannot be read.
RepoKinds ==
    {"nopath", "noopen", "nohead", "nometa", "nopages", "root", "docs", "docs/api", "site",
     "README"}

\* The metadata files in the control directory of a repository of each kind.
MetaFilesOf(kind) ==
    [n \in MetaNames |->
        IF n = "pages" /\ kind \in {"nohead", "nopages"} THEN "missing"
        ELSE IF n = "pages" /\ kind = "root" THEN "empty"
        ELSE IF n = "description" /\ kind = "nometa" THEN "unreadable"
        ELSE "text"]

\* The trimmed text of its pages file.
PagesTextOf(kind) ==
    IF kind \in {"docs", "docs/api", "site", "README"} THEN kind ELSE ""

\* A directory of the filesystem: whether it exists and the files and
\* directories below it, each with its path relative to the directory.
NoDir == [exists |-> FALSE, entries |-> {}]
EmptyDir == [exists |-> TRUE, entries |-> {}]
\* The file written as working_dir.join(filename) at every depth.
FsFileInWorkingDir(path, data) ==
    [path |-> <<path[Len(path)]>>, kind |-> "file", data |-> data]

FsFile(path, data) == [path |-> path, kind |-> "file", data |-> data]
FsDir(path) == [path |-> path, kind |-> "dir", data |-> ""]

\* What an earlier run published under out_dir/x.
OldContent ==
    [exists |-> TRUE,
     entries |-> {FsFile(<<"index.html">>, "old"), FsFile(<<"gone.html">>, "old")}]

WalkTreeShallow(tree, dir) ==
    [k \in 1..Len(tree) |-> [path |-> dir \o <<tree[k].filename>>, entry |-> tree[k]]]

\* The entries of a tree with the path of each, in the order copy_tree_to_dir
\* visits them: an entry, then what lies below it.
RECURSIVE WalkTree(_, _)
WalkTree(tree, dir) ==
    IF tree = <<>> THEN <<>>
    ELSE LET e == Head(tree)
             here == dir \o <<e.filename>>
         IN  <<[path |-> here, entry |-> e]>>
                 \o (IF IsTree(e) THEN WalkTree(e.sub, here) ELSE <<>>)
                 \o WalkTree(Tail(tree), dir)

\* find_root_of_docs_dir: no component left, the tree is the root; else the
\* first entry that has the name of the next component and is a tree is
\* descended; without one the root is not found.
\* find_root_of_docs_dir matching entries by filename alone.
RECURSIVE FindRootByFilename(_, _)
FindRootByFilename(docs_dir, tree) ==
    IF docs_dir = <<>> THEN [ok |-> TRUE, tree |-> tree]
    ELSE LET next_component == Head(docs_dir)
             hits == {k \in 1..Len(tree) : tree[k].filename = next_component}
         IN  IF hits = {} THEN [ok |-> FALSE, tree |-> <<>>]
             ELSE FindRootByFilename(Tail(docs_dir),
                      tree[CHOOSE k \in hits : \A j \in hits : k <= j].sub)

RECURSIVE find_root_of_docs_dir(_, _)
find_root_of_docs_dir(docs_dir, tree) ==
    IF docs_dir = <<>> THEN [ok |-> TRUE, tree |-> tree]
    ELSE LET next_component == Head(docs_dir)
             hits == {k \in 1..Len(tree) :
                         tree[k].filename = next_component /\ IsTree(tree[k])}
         IN  IF hits = {} THEN [ok |-> FALSE, tree |-> <<>>]
             ELSE find_root_of_docs_dir(Tail(docs_dir),
                      tree[CHOOSE k \in hits : \A j \in hits : k <= j].sub)

ExchangeByCopy(a, b) ==
    [first |-> [exists |-> TRUE, entries |-> a.entries \cup b.entries], second |-> a]

\* renameat2(.., RENAME_EXCHANGE): the two directories trade places in one step.
Exchange(a, b) == [first |-> b, second |-> a]

CurRepo == repos[p_idx]

IdlePub ==
    /\ repos = <<>>
    /\ p_idx = 0
    /\ p_pc = "idle"
    /\ fs_out = [n \in RepoNames |-> NoDir]
    /\ fs_work = NoDir
    /\ root_tree = NoneOpt
    /\ todo = <<>>
    /\ warned = {}
    /\ p_result = "running"
    /\ prev_out = [n \in RepoNames |-> NoDir]

\* The list holds one to MaxRepos repositories, the first named x; out_dir/x may
\* hold what an earlier run published, the scratch directory what one left.
InitPub ==
    /\ repos \in {rs \in SeqsOfLen([name : RepoNames, kind : RepoKinds], 1, MaxRepos) :
                     rs[1].name = "x"}
    /\ p_idx = 0
    /\ p_pc = "start"
    /\ fs_out \in {[n \in RepoNames |-> IF n = "x" THEN d ELSE NoDir] :
                      d \in {NoDir, OldContent}}
    /\ fs_work \in {NoDir, [exists |-> TRUE, entries |-> {FsFile(<<"stale.html">>, "stale")}]}
    /\ root_tree = NoneOpt
    /\ todo = <<>>
    /\ warned = {}
    /\ p_result = "running"
    /\ prev_out = fs_out
    /\ meta_files = [n \in MetaNames |-> "missing"]
    /\ head_ok = TRUE
    /\ head_tree = <<>>
    /\ pages_text = ""
    /\ meta = NoMeta
    /\ IdlePath /\ IdleGit /\ IdleHist /\ IdleRepo

\* A `?` of build_pages_dirs itself: the Err is returned and the loop is left.
PagesReturnErr ==
    /\ p_pc' = "returned"
    /\ p_result' = "Err"

WarnAndBreak ==
    /\ warned' = warned \cup {p_idx}
    /\ p_idx' = Len(repos) + 1
    /\ p_pc' = "loop"

\* The Err of copy_docs_to_out_dir is logged and the loop goes on.
WarnAndContinue ==
    /\ warned' = warned \cup {p_idx}
    /\ p_idx' = p_idx + 1
    /\ p_pc' = "loop"

\* copy_docs_to_out_dir returned Ok.
Continue ==
    /\ p_idx' = p_idx + 1
    /\ p_pc' = "loop"
    /\ UNCHANGED warned

\* build_pages_dirs before its loop: out_dir and working_dir are created when
\* they do not exist, and made canonical.
PagesStart ==
    /\ p_pc = "start"
    /\ \E ok \in BOOLEAN :
          IF ok
          THEN /\ fs_work' = IF fs_work.exists THEN fs_work ELSE EmptyDir
               /\ p_idx' = 1
               /\ p_pc' = "loop"
               /\ UNCHANGED p_result
          ELSE PagesReturnErr /\ UNCHANGED <<fs_work, p_idx>>
    /\ UNCHANGED <<repos, fs_out, root_tree, todo, warned, prev_out>>
    /\ UNCHANGED <<treeVars, meta, notPub>>
    /\ mutated' = mutated \cup
          {Mutation("create_dir_all", OutDirJoin(<<>>)),
           Mutation("create_dir_all", WorkingDirJoin(<<>>))}

CreateWorkingDirOnly(dir) == IF dir.exists THEN dir ELSE EmptyDir

\* remove_dir_all(&working_dir) when it exists, then create_dir_all: whatever
\* the directory held, it is there and empty.
ClearWorkingDir(dir) == EmptyDir

\* The head of the loop: with the list done, Ok is returned; else working_dir
\* is removed and created anew and the path of the repository made canonical,
\* each with `?`; the locals of the turn before (root_tree, meta) are gone.
PagesLoopHead ==
    /\ p_pc = "loop"
    /\ IF p_idx > Len(repos)
       THEN /\ p_pc' = "returned"
            /\ p_result' = "Ok"
            /\ UNCHANGED <<fs_work, root_tree, todo, prev_out, meta>>
       ELSE /\ prev_out' = fs_out
            /\ root_tree' = NoneOpt
            /\ todo' = <<>>
            /\ meta' = NoMeta
            /\ \E cleared \in BOOLEAN :
                  IF ~cleared
                  THEN PagesReturnErr /\ fs_work' \in {fs_work, NoDir}
                  ELSE /\ fs_work' = ClearWorkingDir(fs_work)
                       /\ IF CurRepo.kind = "nopath"
                          THEN PagesReturnErr
                          ELSE p_pc' = "open" /\ UNCHANGED p_result
    /\ UNCHANGED <<repos, p_idx, fs_out, warned>>
    /\ UNCHANGED <<treeVars, notPub>>
    /\ mutated' = mutated \cup
          (IF p_idx > Len(repos) THEN {}
           ELSE {Mutation("remove_dir_all", WorkingDirJoin(<<>>)),
                 Mutation("create_dir_all", WorkingDirJoin(<<>>))})

\* gix::open(&repo_path)? and repo.head_commit()?
PubOpen ==
    /\ p_pc = "open"
    /\ meta_files' = MetaFilesOf(CurRepo.kind)
    /\ pages_text' = PagesTextOf(CurRepo.kind)
    /\ head_ok' = (CurRepo.kind # "nohead")
    /\ head_tree' = PubTree
    /\ IF CurRepo.kind \in {"noopen", "nohead"}
       THEN WarnAndContinue
       ELSE p_pc' = "meta" /\ UNCHANGED <<p_idx, warned>>
    /\ UNCHANGED <<repos, fs_out, fs_work, root_tree, todo, p_result, prev_out>>
    /\ UNCHANGED <<meta, notPub>>
    /\ UNCHANGED mutated

\* Meta::load(..)?, the repository name, and the return when meta.pages is None.
PubLoadMeta ==
    /\ p_pc = "meta"
    /\ meta' = MetaLoad
    /\ IF ~meta'.ok THEN WarnAndContinue
       ELSE IF ~IsSome(meta'.pages) THEN Continue
       ELSE p_pc' = "find_root" /\ UNCHANGED <<p_idx, warned>>
    /\ UNCHANGED <<repos, fs_out, fs_work, root_tree, todo, p_result, prev_out>>
    /\ UNCHANGED <<treeVars, notPub>>
    /\ UNCHANGED mutated

\* find_root_of_docs_dir(docs_dir_parts, head.tree()?)?
\* find_root_of_docs_dir with create_dir_all(&repo_out_dir) moved before it.
PubFindRootAfterCreateOutDir ==
    /\ p_pc = "find_root"
    /\ LET found == find_root_of_docs_dir(Components(Unwrap(meta.pages)), head_tree)
       IN  IF found.ok
           THEN /\ root_tree' = Some(found.tree)
                /\ todo' = WalkTree(found.tree, <<>>)
                /\ p_pc' = "staging"
                /\ UNCHANGED <<p_idx, warned>>
           ELSE /\ WarnAndContinue
                /\ UNCHANGED <<root_tree, todo>>
    /\ fs_out' = [fs_out EXCEPT ![CurRepo.name] = IF @.exists THEN @ ELSE EmptyDir]
    /\ UNCHANGED <<repos, fs_work, p_result, prev_out>>
    /\ UNCHANGED <<treeVars, meta, notPub>>
    /\ UNCHANGED mutated

PubFindRoot ==
    /\ p_pc = "find_root"
    /\ LET found == find_root_of_docs_dir(Components(Unwrap(meta.pages)), head_tree)
       IN  IF found.ok
           THEN /\ root_tree' = Some(found.tree)
                /\ todo' = WalkTree(found.tree, <<>>)
                /\ p_pc' = "staging"
                /\ UNCHANGED <<p_idx, warned>>
           ELSE /\ WarnAndContinue
                /\ UNCHANGED <<root_tree, todo>>
    /\ UNCHANGED <<repos, fs_out, fs_work, p_result, prev_out>>
    /\ UNCHANGED <<treeVars, meta, notPub>>
    /\ UNCHANGED mutated

\* One entry of copy_tree_to_dir: a blob is written, a tree created (its
\* entries follow), any other kind passed over with a warning.  A write or a
\* create_dir that fails ends the copy; a failed write may leave a file behind.
PubCopyStep ==
    /\ p_pc = "staging"
    /\ IF todo = <<>>
       THEN /\ p_pc' = "create_out"
            /\ UNCHANGED <<fs_work, todo, p_idx, warned>>
       ELSE LET it == Head(todo)
            IN  IF IsBlob(it.entry)
                THEN \E outcome \in {"ok", "failed", "partial"} :
                        /\ fs_work' =
                              IF outcome = "failed" THEN fs_work
                              ELSE [fs_work EXCEPT !.entries = @ \cup
                                      {FsFile(it.path, IF outcome = "ok" THEN it.entry.data
                                                       ELSE "partial")}]
                        /\ IF outcome = "ok"
                           THEN todo' = Tail(todo) /\ UNCHANGED <<p_pc, p_idx, warned>>
                           ELSE WarnAndContinue /\ UNCHANGED todo
                ELSE IF IsTree(it.entry)
                THEN \E ok \in BOOLEAN :
                        IF ok
                        THEN /\ fs_work' = [fs_work EXCEPT !.entries = @ \cup {FsDir(it.path)}]
                             /\ todo' = Tail(todo)
                             /\ UNCHANGED <<p_pc, p_idx, warned>>
                        ELSE WarnAndContinue /\ UNCHANGED <<fs_work, todo>>
                ELSE /\ todo' = Tail(todo)
                     /\ UNCHANGED <<fs_work, p_pc, p_idx, warned>>
    /\ UNCHANGED <<repos, fs_out, root_tree, p_result, prev_out>>
    /\ UNCHANGED <<treeVars, meta, notPub>>
    /\ mutated' = mutated \cup
          (IF todo = <<>> THEN {}
           ELSE IF IsBlob(Head(todo).entry)
           THEN {Mutation("fs::write", WorkingDirJoin(Head(todo).path))}
           ELSE IF IsTree(Head(todo).entry)
           THEN {Mutation("create_dir", WorkingDirJoin(Head(todo).path))}
           ELSE {})

\* create_dir_all(&repo_out_dir)?
PubCreateOutDir ==
    /\ p_pc = "create_out"
    /\ \E ok \in BOOLEAN :
          IF ok
          THEN /\ fs_out' = [fs_out EXCEPT ![CurRepo.name] =
                                IF @.exists THEN @ ELSE EmptyDir]
               /\ p_pc' = "exchange"
               /\ UNCHANGED <<p_idx, warned>>
          ELSE WarnAndContinue /\ UNCHANGED fs_out
    /\ UNCHANGED <<repos, fs_work, root_tree, todo, p_result, prev_out>>
    /\ UNCHANGED <<treeVars, meta, notPub>>
    /\ mutated' = mutated \cup {Mutation("create_dir_all", OutDirJoin(<<CurRepo.name>>))}

\* The two open calls and renameat2 with RENAME_EXCHANGE.
PubExchange ==
    /\ p_pc = "exchange"
    /\ \E ok \in BOOLEAN :
          IF ok
          THEN LET swapped == Exchange(fs_out[CurRepo.name], fs_work)
               IN  /\ fs_out' = [fs_out EXCEPT ![CurRepo.name] = swapped.first]
                   /\ fs_work' = swapped.second
                   /\ p_pc' = "cleanup"
                   /\ UNCHANGED <<p_idx, warned>>
          ELSE WarnAndContinue /\ UNCHANGED <<fs_out, fs_work>>
    /\ UNCHANGED <<repos, root_tree, todo, p_result, prev_out>>
    /\ UNCHANGED <<treeVars, meta, notPub>>
    /\ mutated' = mutated \cup
          {Mutation("renameat2", WorkingDirJoin(<<>>)),
           Mutation("renameat2", OutDirJoin(<<CurRepo.name>>))}

\* remove_dir_all(&working_dir)? and the Ok of copy_docs_to_out_dir.
PubCleanup ==
    /\ p_pc = "cleanup"
    /\ \E ok \in BOOLEAN :
          IF ok
          THEN fs_work' = NoDir /\ Continue
          ELSE /\ fs_work' \in {fs_work, [fs_work EXCEPT !.entries = {}]}
               /\ WarnAndContinue
    /\ UNCHANGED <<repos, fs_out, root_tree, todo, p_result, prev_out>>
    /\ UNCHANGED <<treeVars, meta, notPub>>
    /\ mutated' = mutated \cup {Mutation("remove_dir_all", WorkingDirJoin(<<>>))}

NextPub ==
    \/ PagesStart
    \/ PagesLoopHead
    \/ PubOpen
    \/ PubLoadMeta
    \/ PubFindRoot
    \/ PubCopyStep
    \/ PubCreateOutDir
    \/ PubExchange
    \/ PubCleanup

(***************************************************************************)
(* get_files: the files table and the content page of every file.          *)
(***************************************************************************)
\* Bytes a blob is made of here: a letter, a line feed, the two bytes of a
\* two-byte UTF-8 character, and a byte no UTF-8 text holds.
LetterA == 97
LineFeed == 10
LeadByte == 195
ContinuationByte == 169
BadByte == 255
Bytes == {LetterA, LineFeed, LeadByte, ContinuationByte, BadByte}

ByteSeqs == SeqsOfLen(Bytes, 0, MaxBytes)

FileEntry(filename, kind, sub, data) ==
    [filename |-> filename, kind |-> kind, sub |-> sub, data |-> data]

\* str::from_utf8(&obj.data) is Ok: the bytes are a sequence of characters, each
\* one byte below 128 or a lead byte of a two-byte character with its
\* continuation byte (no longer character is made of the bytes above).
RECURSIVE FromUtf8(_)
FromUtf8(data) ==
    IF data = <<>> THEN TRUE
    ELSE IF Head(data) < 128 THEN FromUtf8(Tail(data))
    ELSE IF Head(data) \in 194..223
    THEN /\ Len(data) >= 2
         /\ data[2] \in 128..191
         /\ FromUtf8(Tail(Tail(data)))
    ELSE FALSE

LinesCountingFeeds(text) ==
    [i \in 1..Cardinality({k \in 1..Len(text) : text[k] = LineFeed}) |-> <<>>]

\* str::lines(): the text is cut after every line feed; what follows the last
\* one is a line when it is not empty.
RECURSIVE StrLines(_, _)
StrLines(text, cur) ==
    IF text = <<>> THEN (IF cur = <<>> THEN <<>> ELSE <<cur>>)
    ELSE IF Head(text) = LineFeed THEN <<cur>> \o StrLines(Tail(text), <<>>)
    ELSE StrLines(Tail(text), Append(cur, Head(text)))

Lines(text) == StrLines(text, <<>>)

ModeStringListingLinks(kind) ==
    CASE kind = "exe" -> Some("-rwxr-xr-x")
      [] kind \in {"blob", "link"} -> Some("-rw-r--r--")
      [] OTHER -> NoneOpt

\* The match on entry.mode.kind(): the mode string of the row, or `continue`.
ModeString(kind) ==
    CASE kind = "tree" -> NoneOpt
      [] kind = "blob" -> Some("-rw-r--r--")
      [] kind = "exe" -> Some("-rwxr-xr-x")
      [] kind = "link" -> NoneOpt
      [] kind = "commit" -> NoneOpt

\* head_tree.traverse().depthfirst(&mut recorder): the Recorder keeps every
\* entry, trees too, with its path from the root; a tree is followed by what
\* lies below it.
RecorderRecords(tree) == WalkTree(tree, <<>>)

\* The content container of a file: the header with the byte count, then the
\* numbered lines with one anchor l<i> each, or the binary notice.
FileContent(filepath, data) ==
    IF FromUtf8(data)
    THEN [filepath |-> filepath, bytes |-> Len(data), binary |-> FALSE,
          anchors |-> [i \in 1..Len(Lines(data)) |-> i - 1]]
    ELSE [filepath |-> filepath, bytes |-> Len(data), binary |-> TRUE, anchors |-> <<>>]

\* The size cell: the number of lines with L, or of bytes with B.
FileSize(data) ==
    IF FromUtf8(data)
    THEN [n |-> Len(Lines(data)), unit |-> "L"]
    ELSE [n |-> Len(data), unit |-> "B"]

\* The trees get_files is run on: a file a, a directory d with a file b and a
\* directory e that holds a file c; every entry may be of any kind or absent.
FileKinds == {"absent", "blob", "exe", "link", "commit"}
SampleText == <<LetterA, LineFeed>>

Leaf(name, kind) ==
    IF kind = "absent" THEN <<>> ELSE <<FileEntry(name, kind, <<>>, SampleText)>>

Dir(name, sub) ==
    IF sub = <<>> THEN <<>> ELSE <<FileEntry(name, "tree", sub, <<>>)>>

FileTrees ==
    {Leaf("a", ka) \o Dir("d", Leaf("b", kb) \o Dir("e", Leaf("c", kc))) \o Leaf("z", kz) :
        ka \in FileKinds, kb \in FileKinds, kc \in FileKinds, kz \in {"absent", "blob"}}

\* The trees with one file, of any bytes.
ContentTrees ==
    {<<FileEntry("a", kind, <<>>, data)>> : kind \in {"blob", "exe"}, data \in ByteSeqs}

IdleFiles ==
    /\ f_pc = "idle"
    /\ records = <<>>
    /\ f_table = <<>>
    /\ f_entries = <<>>
    /\ f_result = "running"

InitFiles ==
    /\ head_tree \in FileTrees \cup ContentTrees
    /\ head_ok \in BOOLEAN
    /\ meta_files = [n \in MetaNames |-> "missing"]
    /\ pages_text = ""
    /\ meta = NoMeta
    /\ f_pc = "start"
    /\ records = <<>>
    /\ f_table = <<>>
    /\ f_entries = <<>>
    /\ f_result = "running"
    /\ IdlePath /\ IdleGit /\ IdleHist /\ IdleRepo /\ IdlePub

\* repo.head_tree()? and the traversal.
GetFilesStart ==
    /\ f_pc = "start"
    /\ IF head_ok
       THEN /\ records' = RecorderRecords(head_tree)
            /\ f_pc' = "loop"
            /\ UNCHANGED f_result
       ELSE /\ f_pc' = "returned"
            /\ f_result' = "Err"
            /\ UNCHANGED records
    /\ UNCHANGED <<f_table, f_entries, notFiles>>

\* One turn of `for entry in recorder.records`, or the return after the last:
\* a kind without a mode string is passed over; else the object is found (or
\* the Err returned), the content page pushed and the row added.
GetFilesNext ==
    /\ f_pc = "loop"
    /\ IF records = <<>>
       THEN /\ f_pc' = "returned"
            /\ f_result' = "Ok"
            /\ UNCHANGED <<records, f_table, f_entries>>
       ELSE LET entry == Head(records)
                mode == ModeString(entry.entry.kind)
            IN  IF ~IsSome(mode)
                THEN /\ records' = Tail(records)
                     /\ UNCHANGED <<f_pc, f_result, f_table, f_entries>>
                ELSE \E found \in BOOLEAN :
                        IF ~found
                        THEN /\ f_pc' = "returned"
                             /\ f_result' = "Err"
                             /\ UNCHANGED <<records, f_table, f_entries>>
                        ELSE /\ records' = Tail(records)
                             /\ f_entries' = Append(f_entries,
                                   [path |-> [filepath |-> entry.path, ext |-> "html"],
                                    content |-> FileContent(entry.path, entry.entry.data)])
                             /\ f_table' = Append(f_table,
                                   [mode |-> Unwrap(mode),
                                    href |-> [dir |-> "files", filepath |-> entry.path,
                                              ext |-> "html"],
                                    name |-> entry.path,
                                    size |-> FileSize(entry.entry.data)])
                             /\ UNCHANGED <<f_pc, f_result>>
    /\ UNCHANGED notFiles

NextFiles ==
    \/ GetFilesStart
    \/ GetFilesNext

(***************************************************************************)
(* build_index_page and add_row_for_repo_index.                            *)
(***************************************************************************)
PagesUrls == {NoneOpt, Some(""), Some("https://pages")}

\* The last cell of a row: meta.pages.and_then(|pages| pages_url.map(..)): with
\* both there, a link to pages, or to pages_url/pages when pages_url is not
\* empty, with pages as its text; else nothing.
PagesLink(pages, url) ==
    IF IsSome(pages) /\ IsSome(url)
    THEN Some([href |-> IF Unwrap(url) = "" THEN <<Unwrap(pages)>>
                        ELSE <<Unwrap(url), Unwrap(pages)>>,
               text |-> Unwrap(pages)])
    ELSE NoneOpt

\* table.add_body_row([name, meta.description, meta.owner, time, pages_url]);
\* meta.name is the last component of the repository path without extension.
IndexRow(m, name, url) ==
    [name |-> [href |-> <<name, "log.html">>, text |-> name],
     description |-> m.description,
     owner |-> m.owner,
     time |-> "time",
     pages_url |-> PagesLink(m.pages, url)]

IdleIndex ==
    /\ i_pc = "idle"
    /\ i_idx = 0
    /\ i_table = <<>>
    /\ i_warned = {}
    /\ i_result = "running"
    /\ i_written = NoneOpt
    /\ pages_url = NoneOpt
    /\ index_out_dir = FALSE

InitIndex ==
    /\ repos \in {rs \in SeqsOfLen([name : RepoNames, kind : RepoKinds], 1, MaxRepos) :
                     rs[1].name = "x"}
    /\ pages_url \in PagesUrls
    /\ index_out_dir \in BOOLEAN
    /\ i_pc = "start"
    /\ i_idx = 0
    /\ i_table = <<>>
    /\ i_warned = {}
    /\ i_result = "running"
    /\ i_written = NoneOpt
    /\ IdleTree
    /\ p_idx = 0
    /\ p_pc = "idle"
    /\ fs_out = [n \in RepoNames |-> NoDir]
    /\ fs_work = NoDir
    /\ root_tree = NoneOpt
    /\ todo = <<>>
    /\ warned = {}
    /\ p_result = "running"
    /\ prev_out = [n \in RepoNames |-> NoDir]
    /\ IdlePath /\ IdleGit /\ IdleHist /\ IdleRepo /\ IdleFiles

AddPartialRow ==
    i_table' = Append(i_table, IndexRow(NoMeta, repos[i_idx].name, NoneOpt))

\* An Err of add_row_for_repo_index: the table is as it was.
OmitRow == UNCHANGED i_table

\* `if let Err(error) = add_row_for_repo_index(..) { warn!(..) }`
IndexWarnAndContinue ==
    /\ OmitRow
    /\ i_warned' = i_warned \cup {i_idx}
    /\ i_idx' = i_idx + 1
    /\ i_pc' = "loop"

\* build_index_page up to its loop.
IndexStart ==
    /\ i_pc = "start"
    /\ i_idx' = 1
    /\ i_pc' = "loop"
    /\ UNCHANGED <<i_table, i_warned, i_result, i_written, pages_url, index_out_dir>>
    /\ UNCHANGED <<treeVars, meta, notIndex>>
    /\ UNCHANGED mutated

\* The head of the loop; gix::open(&repo_path)?, repo.head_commit()? and
\* head.time()?, each of which may be the Err of the row.
IndexOpen ==
    /\ i_pc = "loop"
    /\ IF i_idx > Len(repos)
       THEN /\ i_pc' = "write"
            /\ UNCHANGED <<treeVars, meta, i_idx, i_table, i_warned>>
       ELSE LET kind == repos[i_idx].kind
            IN  /\ meta_files' = MetaFilesOf(kind)
                /\ pages_text' = PagesTextOf(kind)
                /\ head_ok' = (kind # "nohead")
                /\ head_tree' = PubTree
                /\ meta' = NoMeta
                /\ \E time_ok \in BOOLEAN :
                      IF kind \in {"nopath", "noopen", "nohead"} \/ ~time_ok
                      THEN IndexWarnAndContinue
                      ELSE i_pc' = "row" /\ UNCHANGED <<i_idx, i_table, i_warned>>
    /\ UNCHANGED <<i_result, i_written, pages_url, index_out_dir, notIndex>>
    /\ UNCHANGED mutated

\* Meta::load(..)? and the row.
IndexAddRow ==
    /\ i_pc = "row"
    /\ meta' = MetaLoad
    /\ IF meta'.ok
       THEN /\ i_table' = Append(i_table, IndexRow(meta', repos[i_idx].name, pages_url))
            /\ i_idx' = i_idx + 1
            /\ i_pc' = "loop"
            /\ UNCHANGED i_warned
       ELSE IndexWarnAndContinue
    /\ UNCHANGED <<i_result, i_written, pages_url, index_out_dir, treeVars, notIndex>>
    /\ UNCHANGED mutated

\* After the loop: index.html is created in out_dir and written, then the
\* stylesheet, logo and favicon are copied, each step with `?`; without an
\* out_dir the page goes to stdout.
IndexWrite ==
    /\ i_pc = "write"
    /\ \E outcome \in {"ok", "create_failed", "copy_failed"} :
          /\ (outcome = "copy_failed") => index_out_dir
          /\ i_written' = IF outcome = "create_failed" THEN NoneOpt ELSE Some(i_table)
          /\ i_result' = IF outcome = "ok" THEN "Ok" ELSE "Err"
    /\ i_pc' = "returned"
    /\ UNCHANGED <<i_idx, i_table, i_warned, pages_url, index_out_dir>>
    /\ UNCHANGED <<treeVars, meta, notIndex>>
    /\ mutated' = mutated \cup
          (IF index_out_dir
           THEN {Mutation("File::create", OutDirJoin(<<"index.html">>)),
                 Mutation("fs::copy", OutDirJoin(<<"style.css">>))}
           ELSE {})

NextIndex ==
    \/ IndexStart
    \/ IndexOpen
    \/ IndexAddRow
    \/ IndexWrite

(***************************************************************************)
(* The specifications.                                                     *)
(***************************************************************************)
InitPathSpec ==
    /\ InitPath /\ IdleGit /\ IdleHist /\ IdleTree /\ IdleRepo /\ IdlePub /\ IdleFiles
    /\ IdleIndex /\ NoMutation

SpecPath == InitPathSpec /\ [][NextPath]_vars

InitLog ==
    /\ InitLogShapes \/ InitLogTrees
    /\ InitHist /\ IdlePath /\ IdleTree /\ IdleRepo /\ IdlePub /\ IdleFiles /\ IdleIndex
    /\ NoMutation

SpecLog == InitLog /\ [][NextLog]_vars

InitRepoSpec == InitRepo /\ IdlePub /\ IdleFiles /\ IdleIndex /\ NoMutation

SpecRepo == InitRepoSpec /\ [][NextRepo]_vars

InitPubSpec == InitPub /\ IdleFiles /\ IdleIndex /\ NoMutation

SpecPublish == InitPubSpec /\ [][NextPub]_vars

InitFilesSpec == InitFiles /\ IdleIndex /\ NoMutation

SpecFiles == InitFilesSpec /\ [][NextFiles]_vars

InitIndexSpec == InitIndex /\ NoMutation

SpecIndex == InitIndexSpec /\ [][NextIndex]_vars

\* The three builders, each from its own start.
InitBuilders == InitRepoSpec \/ InitIndexSpec \/ InitPubSpec

NextBuilders ==
    \/ NextRepo
    \/ NextIndex
    \/ NextPub

SpecBuilders == InitBuilders /\ [][NextBuilders]_vars

(***************************************************************************)
(* The claims.                                                             *)
(***************************************************************************)
\* C4: a page written at depth d below out_dir gets the repository-root prefix
\* "../" repeated d-1 times, for every depth and every out_dir, and its index-root
\* prefix is that prefix with exactly one more "../".
C4_PrefixByDepth ==
    w_pc = "written" =>
        /\ Len(to_repo_root) = Len(w_filepath) - 1
        /\ \A k \in 1..Len(to_repo_root) : to_repo_root[k] = "../"
        /\ Len(to_index_root) = Len(to_repo_root) + 1
        /\ \A k \in 1..Len(to_index_root) : to_index_root[k] = "../"

\* A page three segments deep below a non-root out_dir has been written.
C4_Witness ==
    /\ w_pc = "written"
    /\ Len(w_filepath) = 3
    /\ Len(w_out_dir) = 2
    /\ to_repo_root = <<"../", "../">>

\* The number N of commits on the first-parent history of head.
RECURSIVE FirstParentCount(_)
FirstParentCount(c) ==
    IF parents[c] = <<>> THEN 1 ELSE 1 + FirstParentCount(parents[c][1])

\* get_log has returned its table.
LogReturned == h_pc \in {"commits_start", "commits_loop", "done"}

CommitRows == SelectSeq(table, LAMBDA r : r.kind = "commit")
MoreRows == SelectSeq(table, LAMBDA r : r.kind = "more")

\* The number of commits a walk with the bound log_length is to render.
Rendered ==
    IF IsSome(log_length)
    THEN Min(Unwrap(log_length), FirstParentCount(head))
    ELSE FirstParentCount(head)

Truncated == IsSome(log_length) /\ Unwrap(log_length) < FirstParentCount(head)

\* C2: over N first-parent commits and a bound L, get_log produces min(L, N)
\* commit rows, exactly one trailing row when L < N (also when N = L + 1), and
\* no trailing row when L >= N or no bound is given.
C2_RowsAndTrailingRow ==
    LogReturned =>
        /\ Len(CommitRows) = Rendered
        /\ Len(MoreRows) = (IF Truncated THEN 1 ELSE 0)

\* C3: when the walk is truncated at L < N, the number the trailing row states
\* is N - L, the count of commits without a row.
C3_TrailingRowStatesRest ==
    (LogReturned /\ Truncated) =>
        \A k \in 1..Len(table) :
            table[k].kind = "more" =>
                table[k].remaining = FirstParentCount(head) - Unwrap(log_length)

\* ids is head, then the first parent of each id in turn, and it stops only at
\* the bound or at a commit without parents.
IsFirstParentWalk(ids) ==
    /\ Len(ids) = Rendered
    /\ ids # <<>> => ids[1] = head
    /\ \A k \in 1..(Len(ids) - 1) :
          /\ parents[ids[k]] # <<>>
          /\ ids[k + 1] = parents[ids[k]][1]
    /\ (~IsSome(log_length) \/ Len(ids) < Unwrap(log_length)) =>
          (ids # <<>> /\ parents[ids[Len(ids)]] = <<>>)

\* C9: the rows of get_log and the pages of get_commits are the first-parent
\* chain from head, newest first: each next commit is the first parent of the one
\* before, no commit off that chain appears, and the walk renders the first
\* min(L, N) commits, or all N without a bound.
C9_FirstParentOrder ==
    /\ LogReturned => IsFirstParentWalk([k \in 1..Len(CommitRows) |-> CommitRows[k].id])
    /\ h_pc = "done" => IsFirstParentWalk([k \in 1..Len(containers) |-> containers[k].id])

\* Both walks are done over a history whose head is a merge: the second parent
\* has neither a row nor a page although the walk went on past the merge.
C9_Witness ==
    /\ h_pc = "done"
    /\ Len(parents[head]) = 2
    /\ Len(containers) >= 2
    /\ Len(CommitRows) >= 2
    /\ \A k \in 1..Len(containers) : containers[k].id # parents[head][2]

RECURSIVE SumLines(_, _)
SumLines(tree, ps) ==
    IF ps = {} THEN 0
    ELSE LET p == CHOOSE q \in ps : TRUE
         IN  Len(tree[p].lines) + SumLines(tree, ps \ {p})

TextFilesOf(tree) == {p \in FilePaths : tree[p].kind = "text"}

\* The tree the claims name as the diff base of commit c.
FirstParentTree(c) == IF parents[c] = <<>> THEN EmptyTree ELSE ctree[parents[c][1]]

\* Every file of the commit's tree has exactly one diffstat row, marked A.
AllAdditions(page) ==
    /\ Len(page.diffstat_table) = Cardinality(FilesOf(ctree[page.id]))
    /\ \A p \in FilesOf(ctree[page.id]) :
          \E k \in 1..Len(page.diffstat_table) :
              page.diffstat_table[k].href = p /\ page.diffstat_table[k].marker = "A"

\* C10 as stated: the diff base is the first parent's tree, or the empty tree for
\* a root commit, whose files are then all Additions and whose DiffStat is the
\* number of its files and the sum of their line counts, with no removals.
C10_RootDiffStatCountsEveryFile ==
    \A k \in 1..Len(containers) :
        LET page == containers[k]
        IN  /\ page.ancestor_tree = FirstParentTree(page.id)
            /\ parents[page.id] = <<>> =>
                  /\ AllAdditions(page)
                  /\ page.total_files_changed = Cardinality(FilesOf(ctree[page.id]))
                  /\ page.total_lines_added = SumLines(ctree[page.id], FilesOf(ctree[page.id]))
                  /\ page.total_lines_removed = 0

\* C10 as amended: the same, the files counted being those whose content is not
\* binary, on the detail page and in the log row alike.
C10_RootDiffStatCountsTextFiles ==
    /\ \A k \in 1..Len(containers) :
        LET page == containers[k]
        IN  /\ page.ancestor_tree = FirstParentTree(page.id)
            /\ parents[page.id] = <<>> =>
                  /\ AllAdditions(page)
                  /\ page.total_files_changed = Cardinality(TextFilesOf(ctree[page.id]))
                  /\ page.total_lines_added = SumLines(ctree[page.id], TextFilesOf(ctree[page.id]))
                  /\ page.total_lines_removed = 0
    /\ \A k \in 1..Len(CommitRows) :
        LET row == CommitRows[k]
        IN  parents[row.id] = <<>> =>
                  /\ row.changed = Cardinality(TextFilesOf(ctree[row.id]))
                  /\ row.added = SumLines(ctree[row.id], TextFilesOf(ctree[row.id]))
                  /\ row.removed = 0

\* A merge whose parents hold different trees and a root commit holding a text
\* and a binary file have both been rendered.
C10_Witness ==
    /\ h_pc = "done"
    /\ \E k \in 1..Len(containers) :
          /\ Len(parents[containers[k].id]) = 2
          /\ ctree[parents[containers[k].id][1]] # ctree[parents[containers[k].id][2]]
    /\ \E k \in 1..Len(containers) :
          /\ parents[containers[k].id] = <<>>
          /\ containers[k].total_files_changed = 1
          /\ Len(containers[k].diffstat_table) = 2

\* Meta::load has returned, Ok or Err, in this run of build_repo_pages.
MetaLoaded == meta.ok \/ meta.err # ""

\* Whether the head tree has a direct entry of that name that is a file.
TopLevelFile(name) ==
    \E k \in 1..Len(head_tree) :
        head_tree[k].filename = name /\ head_tree[k].kind \in {"blob", "exe"}

\* The first name of a candidate list that is a file of the top level, if any.
FirstCandidate(list) ==
    IF \E k \in 1..Len(list) : TopLevelFile(list[k])
    THEN Some(list[CHOOSE k \in 1..Len(list) :
                     TopLevelFile(list[k]) /\ \A j \in 1..(k - 1) : ~TopLevelFile(list[j])])
    ELSE NoneOpt

\* C5: when the top level holds several names of one candidate list, Meta::load
\* records the one that comes first in the list (README before README.md,
\* LICENSE before LICENSE.md before COPYING), at most one of each.
C5_FirstCandidateWins ==
    meta.ok =>
        /\ meta.readme = FirstCandidate(README_FILES)
        /\ meta.license = FirstCandidate(LICENSE_FILES)

\* What a scan may record: nothing, or the name of a direct entry of the head
\* tree that is a file, not a directory.
TopLevelOnly(found, fileKinds) ==
    \A o \in {found.readme, found.license} :
        IsSome(o) =>
            \E k \in 1..Len(head_tree) :
                head_tree[k].filename = Unwrap(o) /\ head_tree[k].kind \in fileKinds

\* C6: README and LICENSE detection records only direct entries of the head
\* tree: never a candidate-named file that lies in a subdirectory only, never a
\* top-level directory with a candidate name.  The same holds of MetaDelegate,
\* which also looks at links.
C6_TopLevelFilesOnly ==
    /\ meta.ok => TopLevelOnly(meta, {"blob", "exe"})
    /\ TopLevelOnly(MetaDelegate(head_tree, [readme |-> NoneOpt, license |-> NoneOpt]),
                    {"blob", "exe", "link", "commit"})

\* Meta::load succeeded on a tree whose only README entries are a top-level
\* directory README and the README files inside the directories: none is recorded.
C6_Witness ==
    /\ meta.ok
    /\ \E k \in 1..Len(head_tree) :
          /\ head_tree[k].filename = "README" /\ head_tree[k].kind = "tree"
          /\ \E j \in 1..Len(head_tree[k].sub) : head_tree[k].sub[j].filename = "README"
    /\ ~TopLevelFile("README") /\ ~TopLevelFile("README.md")
    /\ meta.readme = NoneOpt

\* The field Meta holds for each metadata file, as an Option.
MetaField(name) ==
    CASE name = "description" -> Some(meta.description)
      [] name = "url" -> Some(meta.url)
      [] name = "owner" -> Some(meta.owner)
      [] name = "pages" -> meta.pages

\* C7: a metadata file that is missing, or that exists and cannot be read, does
\* not make Meta::load fail: its field is empty (None for pages) and the load
\* succeeds.
C7_UnreadableFileIsNoError ==
    (MetaLoaded /\ head_ok) =>
        /\ meta.ok
        /\ \A n \in MetaNames :
              meta_files[n] \in {"missing", "unreadable"} =>
                  MetaField(n) = (IF n = "pages" THEN NoneOpt ELSE Some(""))

\* C8: when the head revision cannot be resolved, Meta::load returns an error,
\* build_repo_pages returns an error, and no page file of any phase has been
\* created.
C8_NoHeadNoPages ==
    ~head_ok =>
        /\ MetaLoaded => ~meta.ok
        /\ r_pc \in {"start", "meta", "returned"}
        /\ r_pc = "returned" => r_result = "Err"
        /\ written = {}

\* build_repo_pages has returned the error of the head that does not resolve.
C8_Witness ==
    /\ ~head_ok
    /\ meta.err = "head"
    /\ r_pc = "returned"
    /\ r_result = "Err"
    /\ written = {}

\* The files and directories a tree of blobs and trees becomes on disk.
RECURSIVE FsImage(_, _)
FsImage(tree, dir) ==
    UNION {LET e == tree[k]
               here == dir \o <<e.filename>>
           IN  CASE e.kind \in {"blob", "exe"} -> {FsFile(here, e.data)}
                 [] e.kind = "tree" -> {FsDir(here)} \cup FsImage(e.sub, here)
                 [] OTHER -> {}
           : k \in 1..Len(tree)}

\* The repository whose publish is under way or was the last to end.
PublishIdx == IF p_pc \in {"loop", "returned"} THEN p_idx - 1 ELSE p_idx

\* C1: at every step of the publish of one repository (root resolution,
\* staging, exchange, cleanup, and after it), out_dir/<name> holds either
\* exactly what it held when the publish began or exactly the files and
\* directories of the resolved pages subtree; the directory of every other
\* name holds what it held before.  Never a mix, never a part of the tree.
C1_OldOrNewNeverMixed ==
    \A n \in RepoNames :
        \/ fs_out[n].entries = prev_out[n].entries
        \/ /\ IsSome(root_tree)
           /\ PublishIdx \in 1..Len(repos)
           /\ repos[PublishIdx].name = n
           /\ fs_out[n].exists
           /\ fs_out[n].entries = FsImage(Unwrap(root_tree), <<>>)

\* The exchange has put the staged subtree of docs in the place of the content
\* an earlier run published, which now lies in the scratch directory.
C1_Witness ==
    /\ p_pc = "cleanup"
    /\ prev_out["x"] = OldContent
    /\ CurRepo.name = "x"
    /\ CurRepo.kind = "docs"
    /\ fs_out["x"].entries = FsImage(Unwrap(root_tree), <<>>)
    /\ fs_out["x"].entries # prev_out["x"].entries
    /\ fs_work = OldContent

(***************************************************************************)
(* The summary line and the diffstat table of a commit detail page.         *)
(***************************************************************************)
RECURSIVE SumField(_, _)
SumField(rows, f) ==
    IF rows = <<>> THEN 0 ELSE Head(rows)[f] + SumField(Tail(rows), f)

\* The rows of a page stand for files, never for a directory, and the two line
\* totals are the sums of the +N and -M of the rows.
RowsAreFilesAndLinesAddUp(page) ==
    /\ \A k \in 1..Len(page.diffstat_table) : page.diffstat_table[k].href \in FilePaths
    /\ page.total_lines_added = SumField(page.diffstat_table, "lines_added")
    /\ page.total_lines_removed = SumField(page.diffstat_table, "lines_removed")

\* Row k of the page is for a path whose content is binary on neither side.
TextRow(page, k) ==
    LET d == page.pre_diffs[k]
    IN  /\ page.ancestor_tree[d.old_location].kind # "binary"
        /\ ctree[page.id][d.new_location].kind # "binary"

\* C11 as stated: on every commit detail page the files-changed number is the
\* number of rows of the diffstat table (the non-tree changed paths), binary
\* content included, and the insertions and deletions are the sums of the rows.
C11_SummaryCountsEveryRow ==
    \A k \in 1..Len(containers) :
        /\ RowsAreFilesAndLinesAddUp(containers[k])
        /\ containers[k].total_files_changed = Len(containers[k].diffstat_table)

\* C11 as the code has it: the files-changed number is the number of rows whose
\* path is binary on neither side; a row of a binary path reads +0 -0 and is
\* not counted.  No row stands for a directory, and the insertions and
\* deletions are the sums of the rows.
C11_SummaryCountsTextRows ==
    \A k \in 1..Len(containers) :
        /\ RowsAreFilesAndLinesAddUp(containers[k])
        /\ containers[k].total_files_changed =
              Cardinality({r \in 1..Len(containers[k].diffstat_table) :
                              TextRow(containers[k], r)})

\* A page of a commit that adds a text file and, in a new directory, a binary
\* file: two rows, one file changed.
C11_Witness ==
    /\ h_pc = "done"
    /\ \E k \in 1..Len(containers) :
          /\ Len(containers[k].diffstat_table) = 2
          /\ containers[k].total_files_changed = 1
          /\ containers[k].total_lines_added > 0
          /\ ctree[containers[k].id]["d/b"].kind = "binary"
          /\ containers[k].ancestor_tree["d/b"].kind = "absent"

(***************************************************************************)
(* The parent links of the commit detail pages.                            *)
(***************************************************************************)
\* The commits whose detail page get_commits built.
PageIds == {containers[k].id : k \in 1..Len(containers)}

\* C12: when get_commits has returned, on the page at index i of the walk the
\* first parent is a link exactly when there is no bound or i + 1 < L, which is
\* exactly when the page of that parent was built in the same run; no other
\* parent is a link.  So every parent link leads to a page that was built.
C12_ParentLinkIffPageBuilt ==
    h_pc = "done" =>
        \A k \in 1..Len(containers) :
            \A j \in 1..Len(containers[k].parent_revs) :
                LET p == containers[k].parent_revs[j]
                    i == k - 1
                IN  /\ p.link <=> (j = 1 /\ (~IsSome(log_length) \/ i + 1 < Unwrap(log_length)))
                    /\ p.link <=> (j = 1 /\ p.id \in PageIds)
                    /\ p.link => p.id \in PageIds

\* A bounded run over a history with a merge: a page with a linked first parent
\* and a second parent in plain text, and the last page with its first parent
\* in plain text.
C12_Witness ==
    /\ h_pc = "done"
    /\ IsSome(log_length)
    /\ \E k \in 1..Len(containers) :
          /\ Len(containers[k].parent_revs) = 2
          /\ containers[k].parent_revs[1].link
          /\ ~containers[k].parent_revs[2].link
    /\ \E k \in 1..Len(containers) :
          /\ Len(containers[k].parent_revs) >= 1
          /\ ~containers[k].parent_revs[1].link
          /\ containers[k].parent_revs[1].id \notin PageIds

(***************************************************************************)
(* The files listing and the content pages.                                *)
(***************************************************************************)
\* Every entry of a tree at any depth, with its path, kind and bytes.
RECURSIVE EntriesBelow(_, _)
EntriesBelow(tree, dir) ==
    UNION {LET e == tree[k]
               here == dir \o <<e.filename>>
           IN  {[path |-> here, kind |-> e.kind, data |-> e.data]}
                   \cup EntriesBelow(e.sub, here)
           : k \in 1..Len(tree)}

\* The paths of the regular and executable files of the head tree.
ListedPaths == {e.path : e \in {x \in EntriesBelow(head_tree, <<>>) : x.kind \in {"blob", "exe"}}}

RowPaths == {f_table[k].name : k \in 1..Len(f_table)}
PagePaths == {f_entries[k].path.filepath : k \in 1..Len(f_entries)}

\* C13: rows and pages go in step; none is for an entry that is not a Blob or
\* a BlobExecutable of the head tree, and none comes twice.  When get_files has
\* returned Ok there is one row and one page for every such entry at any depth,
\* the row linking to the page.
C13_RowAndPagePerFile ==
    /\ Len(f_table) = Len(f_entries)
    /\ RowPaths \subseteq ListedPaths
    /\ Cardinality(RowPaths) = Len(f_table)
    /\ \A k \in 1..Len(f_table) :
          /\ f_table[k].name = f_entries[k].path.filepath
          /\ f_table[k].href.filepath = f_entries[k].path.filepath
    /\ f_result = "Ok" => (RowPaths = ListedPaths /\ PagePaths = ListedPaths)

\* get_files returned Ok on a tree with a file two directories deep, and with a
\* symlink or a submodule that got neither row nor page.
C13_Witness ==
    /\ f_result = "Ok"
    /\ <<"d", "e", "c">> \in RowPaths
    /\ \E e \in EntriesBelow(head_tree, <<>>) : e.kind \in {"link", "commit"}
    /\ \E e \in EntriesBelow(head_tree, <<>>) : e.kind = "exe"
    /\ Len(f_entries) >= 2

\* The bytes are UTF-8 text: every byte is below 128, or a lead byte with a
\* continuation byte after it, or a continuation byte with a lead byte before it.
ValidUtf8(data) ==
    \A i \in 1..Len(data) :
        \/ data[i] < 128
        \/ data[i] \in 194..223 /\ i < Len(data) /\ data[i + 1] \in 128..191
        \/ data[i] \in 128..191 /\ i > 1 /\ data[i - 1] \in 194..223

\* The lines of a text: one for each line feed, and one more for what follows
\* the last line feed when that is not empty.
LineCount(data) ==
    Cardinality({i \in 1..Len(data) : data[i] = LineFeed})
        + (IF data # <<>> /\ data[Len(data)] # LineFeed THEN 1 ELSE 0)

BytesAt(path) ==
    (CHOOSE e \in EntriesBelow(head_tree, <<>>) : e.path = path).data

\* C14: for every listed file, bytes that are not UTF-8 give the size <bytes>B
\* and a binary notice without anchors; UTF-8 text gives the size <lines>L and
\* a page with one anchor per line, as many as the listed number, none for an
\* empty file.
C14_SizeAndPageFollowUtf8 ==
    \A k \in 1..Len(f_table) :
        LET data == BytesAt(f_table[k].name)
            size == f_table[k].size
            page == f_entries[k].content
        IN  IF ValidUtf8(data)
            THEN /\ size = [n |-> LineCount(data), unit |-> "L"]
                 /\ ~page.binary
                 /\ Len(page.anchors) = size.n
                 /\ \A i \in 1..Len(page.anchors) : page.anchors[i] = i - 1
                 /\ data = <<>> => page.anchors = <<>>
            ELSE /\ size = [n |-> Len(data), unit |-> "B"]
                 /\ page.binary
                 /\ page.anchors = <<>>

\* A text of two lines, the second without a line feed at its end, is listed.
C14_Witness ==
    /\ f_result = "Ok"
    /\ Len(f_table) = 1
    /\ BytesAt(f_table[1].name) = <<LetterA, LineFeed, LetterA>>
    /\ f_table[1].size = [n |-> 2, unit |-> "L"]

(***************************************************************************)
(* build_pages_dirs: what one repository's turn does to the others.        *)
(***************************************************************************)
\* The repository at PublishIdx has no pages file, and its turn is under way or
\* over.
NoPagesTurn ==
    /\ PublishIdx \in 1..Len(repos)
    /\ repos[PublishIdx].kind = "nopages"
    /\ p_result # "Err"

\* C15: for a repository without a pages file Meta::load gives pages None and
\* copy_docs_to_out_dir returns Ok at once: its turn takes none of the steps
\* after Meta::load, no directory below out_dir is created, changed, exchanged
\* or removed in it, and no failure is logged for it.
C15_NoPagesIsNoOp ==
    NoPagesTurn =>
        /\ p_pc \in {"open", "meta", "loop", "returned"}
        /\ p_pc \in {"loop", "returned"} => (meta.ok /\ ~IsSome(meta.pages))
        /\ fs_out = prev_out
        /\ PublishIdx \notin warned

\* The turn of a repository without a pages file is over; what an earlier run
\* published under its name is still there.
C15_Witness ==
    /\ NoPagesTurn
    /\ p_pc = "loop"
    /\ meta.ok
    /\ ~IsSome(meta.pages)
    /\ repos[PublishIdx].name = "x"
    /\ fs_out["x"] = OldContent

\* What the publish of the subtree at the path comps of PubTree puts on disk.
ExpectedImage(comps) ==
    {IF e.kind = "tree"
     THEN FsDir(SubSeq(e.path, Len(comps) + 1, Len(e.path)))
     ELSE FsFile(SubSeq(e.path, Len(comps) + 1, Len(e.path)), e.data) :
        e \in {x \in EntriesBelow(PubTree, <<>>) :
                  /\ x.kind \in {"blob", "exe", "tree"}
                  /\ Len(x.path) > Len(comps)
                  /\ SubSeq(x.path, 1, Len(comps)) = comps}}

\* The directory each publishable kind of repository names.
PagesPath(kind) ==
    CASE kind = "root" -> <<>>
      [] kind = "docs" -> <<"docs">>
      [] kind = "docs/api" -> <<"docs", "api">>

\* The turn of the repository at PublishIdx ended where its pages root was
\* looked for and not found.
RootNotFoundTurn ==
    /\ PublishIdx \in 1..Len(repos)
    /\ p_pc \in {"loop", "returned"}
    /\ meta.ok
    /\ IsSome(meta.pages)
    /\ root_tree = NoneOpt

\* Repository j was published without a logged failure, and no repository
\* after it in the list has both its name and a pages root to publish.
LastPublished(j) ==
    /\ repos[j].kind \in {"root", "docs", "docs/api"}
    /\ j \notin warned
    /\ \A k \in (j + 1)..Len(repos) :
          repos[k].name = repos[j].name => repos[k].kind \notin {"root", "docs", "docs/api"}

\* C16: a repository whose pages root is not found leaves every directory below
\* out_dir as it was, has its failure logged, and the loop goes on; no Err of
\* build_pages_dirs arises in the turn of a repository.  When build_pages_dirs
\* has returned Ok, every repository of the list had its turn and each one
\* published without failure has its subtree under its name.
C16_RootNotFoundIsIsolated ==
    /\ RootNotFoundTurn =>
          /\ repos[PublishIdx].kind \in {"site", "README"}
          /\ fs_out = prev_out
          /\ PublishIdx \in warned
          /\ p_result # "Err"
    /\ \A i \in 1..Len(repos) :
          (repos[i].kind \in {"site", "README"} /\ i < p_idx) => i \in warned
    /\ p_result = "Err" => (meta = NoMeta /\ root_tree = NoneOpt)
    /\ p_result = "Ok" =>
          /\ p_idx = Len(repos) + 1
          /\ \A j \in 1..Len(repos) :
                LastPublished(j) =>
                    fs_out[repos[j].name].entries = ExpectedImage(PagesPath(repos[j].kind))

\* build_pages_dirs returned Ok on a list whose first repository names a pages
\* directory its tree does not have: what was published under its name is
\* still there, and the repository after it is published.
C16_Witness ==
    /\ p_result = "Ok"
    /\ Len(repos) = 2
    /\ repos[1] = [name |-> "x", kind |-> "site"]
    /\ repos[2] = [name |-> "y", kind |-> "docs"]
    /\ warned = {1}
    /\ fs_out["x"] = OldContent
    /\ fs_out["y"].entries = ExpectedImage(<<"docs">>)
    /\ fs_out["y"].entries # {}

\* C17: once the loop of build_pages_dirs is entered, whatever fails in the turn
\* of a repository, a path that does not exist included, is logged and the loop
\* goes on: build_pages_dirs returns only after the last repository had its
\* turn, and returns Ok.
C17_EveryFailureIsIsolated ==
    (p_pc = "returned" /\ p_idx >= 1) =>
        /\ p_result = "Ok"
        /\ p_idx = Len(repos) + 1

(***************************************************************************)
(* The index page.                                                         *)
(***************************************************************************)
\* The places of the list whose turn is over, in order.
RECURSIVE RowedPlaces(_)
RowedPlaces(n) ==
    IF n <= 0 THEN <<>>
    ELSE RowedPlaces(n - 1) \o (IF n \in i_warned THEN <<>> ELSE <<n>>)

IndexTurnsOver == IF i_pc = "row" THEN i_idx - 1 ELSE Min(i_idx, Len(repos) + 1) - 1

\* C18: the table holds one whole row for each repository whose turn is over
\* and did not fail, in the order of the list, and none for one that failed (a
\* repository that cannot be opened, has no head, or whose metadata cannot be
\* loaded always fails).  No failure of a repository ends the loop: an Err of
\* build_index_page arises only after the last turn, in the writing, and with
\* Ok the index was written with exactly the rows of the table.
C18_OneRowPerResolvedRepo ==
    /\ i_pc # "idle" =>
          LET places == RowedPlaces(IndexTurnsOver)
          IN  /\ Len(i_table) = Len(places)
              /\ \A k \in 1..Len(places) :
                    /\ i_table[k].name.text = repos[places[k]].name
                    /\ i_table[k].time = "time"
                    /\ i_table[k].description = "description"
                    /\ i_table[k].owner = "owner"
                    /\ repos[places[k]].kind \notin {"nopath", "noopen", "nohead", "nometa"}
    /\ i_warned \subseteq 1..IndexTurnsOver
    /\ i_pc = "returned" =>
          /\ i_idx = Len(repos) + 1
          /\ i_result = "Ok" => i_written = Some(i_table)

\* build_index_page returned Ok although every repository of the list failed:
\* the index was written with no row.
C18_Witness ==
    /\ i_pc = "returned"
    /\ i_result = "Ok"
    /\ Len(repos) = 2
    /\ repos[1].kind = "nohead"
    /\ repos[2].kind = "nometa"
    /\ i_warned = {1, 2}
    /\ i_written = Some(<<>>)

\* The repository of the list that row k of the table is for.
PlaceOfRow(k) == RowedPlaces(IndexTurnsOver)[k]

\* C19: a row has a pages link exactly when a pages base URL is configured and
\* the repository has a pages file, and the link leads to where build_pages_dirs
\* publishes the pages of that repository: the base URL followed by the name of
\* the repository.
C19_PagesLinkLeadsToPublishedDir ==
    i_pc # "idle" =>
        \A k \in 1..Len(i_table) :
            LET repo == repos[PlaceOfRow(k)]
                link == i_table[k].pages_url
            IN  /\ IsSome(link) <=>
                      (IsSome(pages_url)
                          /\ repo.kind \in {"root", "docs", "docs/api", "site", "README"})
                /\ IsSome(link) =>
                      Unwrap(link).href =
                          (IF Unwrap(pages_url) = "" THEN <<repo.name>>
                           ELSE <<Unwrap(pages_url), repo.name>>)

(***************************************************************************)
(* The phases of build_repo_pages.                                         *)
(***************************************************************************)
\* The pages a whole run writes, by phase: refs, files, log, commits.
PhasePages(phase) ==
    CASE phase = 1 -> {<<"refs.html">>}
      [] phase = 2 ->
            {<<"files">> \o e.path :
                e \in {x \in EntriesBelow(head_tree, <<>>) : x.kind \in {"blob", "exe"}}}
                \cup {<<"files.html">>}
      [] phase = 3 -> {<<"log.html">>}
      [] phase = 4 ->
            {<<"commits", RevWalk[k]>> :
                k \in 1..(IF IsSome(log_length)
                          THEN Min(Unwrap(log_length), Len(RevWalk))
                          ELSE Len(RevWalk))}

PhaseNumber(pc) ==
    CASE pc = "refs" -> 1
      [] pc = "files" -> 2
      [] pc = "log" -> 3
      [] pc = "commits" -> 4
      [] pc \in {"start", "meta"} -> 0
      [] OTHER -> 5

\* C20: the pages are written phase by phase in the order refs, files, log,
\* commits: a page of a phase is on disk only when every page of every phase
\* before it is, so after an Err no page of a phase after the failed one was
\* written and the pages of the phases before it remain.  Before a phase is
\* run no page of it or of a later phase is there, and Ok means every page.
C20_PhasesInOrderStopAtFirstFailure ==
    r_pc # "idle" =>
        /\ written \subseteq UNION {PhasePages(q) : q \in 1..4}
        /\ \A q \in 1..4 :
              /\ (written \cap PhasePages(q) # {}) =>
                    \A e \in 1..(q - 1) : PhasePages(e) \subseteq written
              /\ PhaseNumber(r_pc) <= q => written \cap PhasePages(q) = {}
              /\ (PhaseNumber(r_pc) > q /\ r_pc # "returned") => PhasePages(q) \subseteq written
        /\ r_result = "Ok" => written = UNION {PhasePages(q) : q \in 1..4}
        /\ r_result = "Err" => r_pc = "returned"

\* build_repo_pages returned the Err of the files phase after some of its
\* content pages: refs.html and those pages are there, log.html and the commit
\* pages are not.
C20_Witness ==
    /\ r_pc = "returned"
    /\ r_result = "Err"
    /\ <<"refs.html">> \in written
    /\ \E p \in written : p[1] = "files"
    /\ <<"files.html">> \notin written
    /\ <<"log.html">> \notin written
    /\ \A p \in written : p[1] # "commits"

(***************************************************************************)
(* The steps of one publish.                                               *)
(***************************************************************************)
\* What the resolved pages root becomes on disk.
NewContent == FsImage(Unwrap(root_tree), <<>>)

\* One step of a publish keeps the order root resolution, staging, exchange,
\* cleanup.
PublishStepInOrder ==
    /\ (p_pc' = "staging" /\ p_pc # "staging") => (p_pc = "find_root" /\ IsSome(root_tree'))
    /\ (p_pc = "staging" /\ p_pc' = "staging") => Len(todo') < Len(todo)
    /\ p_pc' = "create_out" =>
          (p_pc = "staging" /\ todo = <<>> /\ fs_work.entries = NewContent)
    /\ p_pc' = "exchange" => (p_pc = "create_out" /\ fs_work.entries = NewContent)
    /\ p_pc' = "cleanup" =>
          /\ p_pc = "exchange"
          /\ fs_out'[CurRepo.name].entries = NewContent
          /\ fs_work' = fs_out[CurRepo.name]
    /\ p_pc = "cleanup" =>
          /\ p_pc' = "loop" /\ p_idx' = p_idx + 1
          /\ fs_out' = fs_out
          /\ p_idx \notin warned' => fs_work' = NoDir
    /\ fs_out' # fs_out => p_pc \in {"create_out", "exchange"}
    /\ \A n \in RepoNames :
          fs_out'[n].entries # fs_out[n].entries => (p_pc = "exchange" /\ n = CurRepo.name)

\* C21: every step of build_pages_dirs keeps the order of a publish: staging
\* begins after the root was resolved and visits each entry once; the exchange
\* is reached only from staging that copied the whole resolved subtree; cleanup
\* is reached only from an exchange that put the new content in place and the
\* old content in the scratch path; and a publish that ends without a logged
\* failure has removed the scratch directory with the old content.
C21_PublishStepsInOrder == [][PublishStepInOrder]_vars

\* A publish over earlier content has ended without failure: the new content is
\* in place and the scratch directory is gone.
C21_Witness ==
    /\ p_pc = "loop"
    /\ PublishIdx \in 1..Len(repos)
    /\ PublishIdx \notin warned
    /\ IsSome(root_tree)
    /\ prev_out[repos[PublishIdx].name] = OldContent
    /\ fs_out[repos[PublishIdx].name].entries = NewContent
    /\ fs_work = NoDir

(***************************************************************************)
(* The scratch directory between the repositories of the list.             *)
(***************************************************************************)
\* What a publish of a repository named n of the list puts under out_dir/n.
ContentsFor(n) ==
    {ExpectedImage(PagesPath(repos[i].kind)) :
        i \in {k \in 1..Len(repos) :
                  repos[k].name = n /\ repos[k].kind \in {"root", "docs", "docs/api"}}}

\* C22: from the start of a repository's turn until its staging starts the
\* scratch directory exists and is empty, whatever the turn before left; while
\* staging it holds nothing but entries of the resolved subtree; and the
\* directory of a name holds what was there before the run or the subtree of
\* a repository of that name, never files staged for another one.
C22_ScratchClearedForEachRepo ==
    /\ p_pc \in {"open", "meta", "find_root"} => fs_work = EmptyDir
    /\ (p_pc = "staging" /\ todo = WalkTree(Unwrap(root_tree), <<>>)) => fs_work = EmptyDir
    /\ p_pc = "staging" => (fs_work.exists /\ fs_work.entries \subseteq NewContent)
    /\ p_pc # "idle" =>
          \A n \in RepoNames :
              fs_out[n].entries \in {{}, OldContent.entries} \cup ContentsFor(n)

\* Staging starts for the second repository after the first, which has pages
\* to publish, ended with a logged failure.
C22_Witness ==
    /\ p_pc = "staging"
    /\ p_idx = 2
    /\ warned = {1}
    /\ repos[1].kind \in {"root", "docs", "docs/api"}
    /\ repos[2].name # repos[1].name
    /\ todo = WalkTree(Unwrap(root_tree), <<>>)
    /\ fs_work = EmptyDir

(***************************************************************************)
(* Where the builders change the filesystem.                               *)
(***************************************************************************)
\* C23: every call of build_repo_pages, build_index_page and build_pages_dirs
\* that creates, writes, renames or removes works at a path below out_dir or
\* below working_dir; none works at a path of the source repository.
C23_MutationsOnlyInOutAndScratch ==
    \A m \in mutated : m.root \in {"out_dir", "working_dir"}

\* A publish has ended: directories were created, files written, the two
\* directories exchanged and the scratch directory removed.
C23_Witness ==
    /\ p_pc = "loop"
    /\ PublishIdx \in 1..Len(repos)
    /\ PublishIdx \notin warned
    /\ IsSome(root_tree)
    /\ {m.call : m \in mutated} =
          {"create_dir_all", "remove_dir_all", "fs::write", "create_dir", "renameat2"}
    /\ {m.root : m \in mutated} = {"out_dir", "working_dir"}

(***************************************************************************)
(* C24: a publish that fails while the pages root is resolved or while the *)
(* tree is staged leaves the output directory as it was.                   *)
(***************************************************************************)

\* The turn of repos[PublishIdx] is over and staging stopped at an entry
\* that could not be written.
StagingFailedTurn ==
    /\ PublishIdx \in 1..Len(repos)
    /\ p_pc \in {"loop", "returned"}
    /\ IsSome(root_tree)
    /\ todo # <<>>

\* C24: while the root is resolved and the tree is staged, and after a turn
\* that failed in one of these two steps, every output directory is what it
\* was when the turn started: same content, no exchange, and a directory
\* that did not exist still does not exist.
C24_FailureBeforeExchangeLeavesOutput ==
    /\ p_pc \in {"find_root", "staging"} => fs_out = prev_out
    /\ (RootNotFoundTurn \/ StagingFailedTurn) =>
          /\ PublishIdx \in warned
          /\ fs_out = prev_out
          /\ fs_out[repos[PublishIdx].name].exists = prev_out[repos[PublishIdx].name].exists

\* A file of the second repository was half written to the scratch directory;
\* its output directory did not exist and still does not, and the first
\* repository's published content is untouched.
C24_Witness ==
    /\ StagingFailedTurn
    /\ PublishIdx = 2
    /\ repos[2].name = "y"
    /\ \E e \in fs_work.entries : e.kind = "file" /\ e.data = "partial"
    /\ ~prev_out["y"].exists
    /\ ~fs_out["y"].exists
    /\ fs_out["x"] = OldContent

(***************************************************************************)
(* C25: what a successful publish leaves in the output directory.          *)
(***************************************************************************)

\* The entries of the head tree below the pages root, with paths relative
\* to it.
SubtreeEntries(comps) ==
    {[path |-> SubSeq(x.path, Len(comps) + 1, Len(x.path)), kind |-> x.kind, data |-> x.data] :
        x \in {y \in EntriesBelow(PubTree, <<>>) :
                  /\ Len(y.path) > Len(comps)
                  /\ SubSeq(y.path, 1, Len(comps)) = comps}}

\* The turn of repos[PublishIdx] ended with Ok after the exchange.
PublishedTurn ==
    /\ PublishIdx \in 1..Len(repos)
    /\ p_pc \in {"loop", "returned"}
    /\ PublishIdx \notin warned
    /\ IsSome(root_tree)

\* C25: after a successful publish the output directory holds one file per
\* blob and one directory per subtree of the pages root, at the same
\* relative path and with the blob's bytes, nothing for an entry of another
\* kind, and nothing else: no file of the old content that the new subtree
\* lacks remains.
C25_PublishedIsExactlyTheSubtree ==
    PublishedTurn =>
        LET name == repos[PublishIdx].name
            sub == SubtreeEntries(PagesPath(repos[PublishIdx].kind))
            out == fs_out[name].entries
        IN  /\ fs_out[name].exists
            /\ \A e \in sub :
                  /\ e.kind \in {"blob", "exe"} =>
                        [path |-> e.path, kind |-> "file", data |-> e.data] \in out
                  /\ e.kind = "tree" => [path |-> e.path, kind |-> "dir", data |-> ""] \in out
                  /\ e.kind \notin {"blob", "exe", "tree"} =>
                        \A o \in out : o.path # e.path
            /\ \A o \in out :
                  \E e \in sub :
                     /\ o.path = e.path
                     /\ o.kind = (IF e.kind = "tree" THEN "dir" ELSE "file")
                     /\ o.data = e.data
            /\ \A old \in prev_out[name].entries :
                  (\A e \in sub : e.path # old.path) => (\A o \in out : o.path # old.path)

\* docs was published over the old content: the nested api/a.html is there,
\* the link latest was skipped, index.html is replaced and gone.html is gone.
C25_Witness ==
    /\ PublishedTurn
    /\ repos[PublishIdx] = [name |-> "x", kind |-> "docs"]
    /\ prev_out["x"] = OldContent
    /\ [path |-> <<"api", "a.html">>, kind |-> "file", data |-> "new"] \in fs_out["x"].entries
    /\ [path |-> <<"index.html">>, kind |-> "file", data |-> "new"] \in fs_out["x"].entries
    /\ \A o \in fs_out["x"].entries : o.path \notin {<<"latest">>, <<"gone.html">>}

(***************************************************************************)
(* C26: find_root_of_docs_dir follows tree entries only.                   *)
(***************************************************************************)

\* The subpaths tried against the head tree of the publisher.
SubPaths ==
    {<<>>} \cup {<<a>> : a \in {"docs", "api", "README", "site", "index.html"}}
           \cup {<<"docs", a>> : a \in {"api", "index.html", "latest", "docs"}}
           \cup {<<"docs", "api", "a.html">>}

\* The tree a subpath names in the head tree of the publisher, where it
\* names one.
NamedTree(comps) ==
    CASE comps = <<>> -> PubTree
      [] comps = <<"docs">> -> PubTree[2].sub
      [] comps = <<"docs", "api">> -> PubTree[2].sub[1].sub

\* C26: the resolution succeeds exactly for the subpaths whose components
\* all name trees, with the named tree (the head tree for the empty
\* subpath); a publish turn is past the resolution only with that tree, and
\* a turn whose subpath names nothing (site) or a blob (README) ends with
\* the warning and an empty scratch directory.
C26_RootFollowsTreesOnly ==
    /\ \A comps \in SubPaths :
          LET found == find_root_of_docs_dir(comps, PubTree)
          IN  IF comps \in {<<>>, <<"docs">>, <<"docs", "api">>}
              THEN found.ok /\ found.tree = NamedTree(comps)
              ELSE ~found.ok
    /\ p_pc \in {"staging", "create_out", "exchange", "cleanup"} =>
          /\ CurRepo.kind \in {"root", "docs", "docs/api"}
          /\ root_tree = Some(NamedTree(PagesPath(CurRepo.kind)))
    /\ (/\ p_pc = "loop"
        /\ PublishIdx \in 1..Len(repos)
        /\ repos[PublishIdx].kind \in {"site", "README"}) =>
          /\ root_tree = NoneOpt
          /\ PublishIdx \in warned
          /\ todo = <<>>
          /\ fs_work = EmptyDir

\* The subpath README names a blob of the head tree: the turn is over with
\* the warning and nothing was staged.
C26_Witness ==
    /\ p_pc = "loop"
    /\ PublishIdx \in 1..Len(repos)
    /\ repos[PublishIdx].kind = "README"
    /\ \E k \in 1..Len(head_tree) : head_tree[k].filename = "README" /\ IsBlob(head_tree[k])
    /\ PublishIdx \in warned
    /\ fs_work = EmptyDir

(***************************************************************************)
(* C27: the rows of the log and the commit detail pages.                   *)
(***************************************************************************)

\* The places of the log table whose row stands for a commit.
CommitRowPlaces == {k \in 1..Len(table) : table[k].kind = "commit"}

\* The path build_repo_pages writes the detail page of a container to.
DetailPage(id) == <<"commits", id>>

\* C27: when get_log and get_commits have both run with the same bound, the
\* commits with a row in the log are the commits with a detail page, one row
\* and one page each, and the title link of every row is the path of a
\* detail page; while the pages are being built none is built for a commit
\* without a row.
C27_LogRowsAreDetailPages ==
    /\ h_pc \in {"commits_loop", "done"} =>
          PageIds \subseteq {table[k].id : k \in CommitRowPlaces}
    /\ h_pc = "done" =>
          /\ {table[k].id : k \in CommitRowPlaces} = PageIds
          /\ Cardinality(CommitRowPlaces) = Len(containers)
          /\ \A k \in CommitRowPlaces :
                table[k].href \in {DetailPage(containers[j].id) : j \in 1..Len(containers)}
          /\ \A j \in 1..Len(containers) :
                \E k \in CommitRowPlaces : table[k].href = DetailPage(containers[j].id)

\* The bound 2 cut a longer history: two rows, two pages, and commits left
\* over that have neither.
C27_Witness ==
    /\ h_pc = "done"
    /\ log_length = Some(2)
    /\ Len(RevWalk) > 2
    /\ Len(containers) = 2
    /\ Cardinality(CommitRowPlaces) = 2
    /\ \E c \in Commits : c \notin PageIds

(***************************************************************************)
(* C28: the diffstat table and the diff body of a detail page.             *)
(***************************************************************************)

\* The changes of a container's commit that are not changes of a tree entry.
NonTreeChanges(con) ==
    SelectSeq(Changes(con.ancestor_tree, ctree[con.id]), LAMBDA ch : ch.mode # "tree")

\* C28: on every detail page the rows of the diffstat table and the
\* sections of the diff body follow the non-tree changes one for one and in
\* their order; the anchor of row k is the id of the marker of section k,
\* which is the new location of change k, also for a Rewrite; no two
\* sections of a page carry the same id.
C28_DiffstatRowsMatchSections ==
    \A j \in 1..Len(containers) :
        LET con == containers[j]
            chs == NonTreeChanges(con)
        IN  /\ Len(con.diffstat_table) = Len(chs)
            /\ Len(con.pre_diffs) = Len(chs)
            /\ \A k \in 1..Len(chs) :
                  /\ con.diffstat_table[k].href = chs[k].location
                  /\ con.diffstat_table[k].href = con.pre_diffs[k].id
                  /\ con.pre_diffs[k].new_location = chs[k].location
                  /\ con.pre_diffs[k].old_location = chs[k].source_location
                  /\ con.diffstat_table[k].marker = "R" <=>
                        con.pre_diffs[k].old_location # con.pre_diffs[k].new_location
            /\ \A k, l \in 1..Len(chs) :
                  con.pre_diffs[k].id = con.pre_diffs[l].id => k = l

\* One page shows a Rewrite next to the skipped change of the tree d, another
\* page has two rows and two sections.
C28_Witness ==
    /\ h_pc = "done"
    /\ \E j \in 1..Len(containers) :
          /\ Len(containers[j].diffstat_table) = 1
          /\ containers[j].diffstat_table[1].marker = "R"
          /\ containers[j].pre_diffs[1].old_location = "a"
          /\ containers[j].pre_diffs[1].id = "d/b"
          /\ Len(Changes(containers[j].ancestor_tree, ctree[containers[j].id])) > 1
    /\ \E j \in 1..Len(containers) :
          /\ Len(containers[j].diffstat_table) = 2
          /\ containers[j].pre_diffs[1].id # containers[j].pre_diffs[2].id

(***************************************************************************)
(* C29: the two sides of the unified diff of a Rewrite.                    *)
(***************************************************************************)

\* The lines the unified diff of a section shows as added and as removed.
ShownLines(d) ==
    LET common == Lcs(d.old_string.lines, d.new_string.lines)
    IN  [added |-> Len(d.new_string.lines) - common,
         removed |-> Len(d.old_string.lines) - common]

\* C29: in a section whose old location differs from its new location the
\* diff compares the content at the old location in the base tree with the
\* content at the new location in the commit's tree, so a rename that left
\* the content alone shows no added and no removed line.
C29_RewriteDiffComparesOldWithNew ==
    \A j \in 1..Len(containers) :
        LET con == containers[j]
        IN  \A k \in 1..Len(con.pre_diffs) :
                LET d == con.pre_diffs[k]
                IN  d.old_location # d.new_location =>
                       /\ d.old_string = con.ancestor_tree[d.old_location]
                       /\ d.new_string = ctree[con.id][d.new_location]
                       /\ con.ancestor_tree[d.old_location] = ctree[con.id][d.new_location] =>
                             ShownLines(d) = [added |-> 0, removed |-> 0]

====
